---------------------------- MODULE Spec2Model ----------------------------
(***************************************************************************)
(* A model of the Tippmix E-sport scraper: the Match Extractor             *)
(* (tippmix_scraper/parser.py), the Event Store (storage.py), the payload  *)
(* pipeline (scraper.py) and the Mitigation Engine (mitigator.py).         *)
(*                                                                         *)
(* Python strings are sequences of one-character strings, so that lower(), *)
(* strip(), split(), join() and the `in` substring test are computed the   *)
(* way the interpreter computes them.  JSON values are tagged records.     *)
(* A Python exception is the value Raised, which every operator passes on  *)
(* until the `try` that catches it.                                        *)
(***************************************************************************)
EXTENDS Integers, Sequences, FiniteSets, TLC

\* the bounds of the model
MaxClock == 1
MaxCalls == 2

(***************************************************************************)
(* Strings                                                                 *)
(***************************************************************************)
UpperChars == <<"A","B","C","D","E","F","G","H","I","J","K","L","M","N","O","P","Q","R","S","T","U","V","W","X","Y","Z">>
LowerChars == <<"a","b","c","d","e","f","g","h","i","j","k","l","m","n","o","p","q","r","s","t","u","v","w","x","y","z">>

LowerChar(c) ==
  IF \E i \in 1..Len(UpperChars) : UpperChars[i] = c
  THEN LowerChars[CHOOSE i \in 1..Len(UpperChars) : UpperChars[i] = c]
  ELSE c

UpperChar(c) ==
  IF \E i \in 1..Len(LowerChars) : LowerChars[i] = c
  THEN UpperChars[CHOOSE i \in 1..Len(LowerChars) : LowerChars[i] = c]
  ELSE c

\* str.lower()
Lower(s) == [i \in 1..Len(s) |-> LowerChar(s[i])]

\* str.upper()
Upper(s) == [i \in 1..Len(s) |-> UpperChar(s[i])]

\* str.strip(): leading and trailing blanks removed
Strip(s) ==
  LET idx == {i \in 1..Len(s) : s[i] # " "}
  IN IF idx = {} THEN <<>>
     ELSE SubSeq(s, CHOOSE i \in idx : \A j \in idx : i <= j,
                    CHOOSE i \in idx : \A j \in idx : i >= j)

\* k in s
Contains(s, k) ==
  \E i \in 1..(Len(s) - Len(k) + 1) : SubSeq(s, i, i + Len(k) - 1) = k

\* s.find(k) (1-based; 0 when absent)
Find(s, k) ==
  IF Contains(s, k)
  THEN CHOOSE i \in 1..(Len(s) - Len(k) + 1) :
         /\ SubSeq(s, i, i + Len(k) - 1) = k
         /\ \A j \in 1..(i - 1) : SubSeq(s, j, j + Len(k) - 1) # k
  ELSE 0

\* s.split(k, 1) of a string that contains k
SplitOnce(s, k) ==
  LET i == Find(s, k)
  IN <<SubSeq(s, 1, i - 1), SubSeq(s, i + Len(k), Len(s))>>

\* " ".join(parts)
RECURSIVE JoinSpace(_)
JoinSpace(parts) ==
  IF Len(parts) = 0 THEN <<>>
  ELSE IF Len(parts) = 1 THEN parts[1]
  ELSE parts[1] \o <<" ">> \o JoinSpace(Tail(parts))

Digits == <<"0","1","2","3","4","5","6","7","8","9">>

IsDigit(c) == \E i \in 1..10 : Digits[i] = c

DigitVal(c) == (CHOOSE i \in 1..10 : Digits[i] = c) - 1

\* the decimal digits of a natural number
RECURSIVE NatStr(_)
NatStr(n) ==
  IF n < 10 THEN <<Digits[n + 1]>>
  ELSE NatStr(n \div 10) \o <<Digits[(n % 10) + 1]>>

\* the value of a non-empty string of digits
RECURSIVE DigitsVal(_)
DigitsVal(s) ==
  IF Len(s) = 0 THEN 0
  ELSE 10 * DigitsVal(SubSeq(s, 1, Len(s) - 1)) + DigitVal(s[Len(s)])


(***************************************************************************)
(* JSON values as the interpreter holds them.  An int is hi * 10^9 + lo    *)
(* (epoch milliseconds do not fit a 32-bit integer of TLC); a              *)
(* finite float is c hundredths.                                           *)
(***************************************************************************)
Billion == 1000000000

JNone == [t |-> "none"]
JStr(s) == [t |-> "str", s |-> s]
JInt(n) == [t |-> "int", hi |-> 0, lo |-> n, neg |-> FALSE]
JBig(h, l) == [t |-> "int", hi |-> h, lo |-> l, neg |-> FALSE]
JNeg(n) == [t |-> "int", hi |-> 0, lo |-> n, neg |-> TRUE]
JFloat(c) == [t |-> "float", k |-> "fin", c |-> c]
JNaN == [t |-> "float", k |-> "nan", c |-> 0]
JInf == [t |-> "float", k |-> "inf", c |-> 0]
JBool(b) == [t |-> "bool", b |-> b]
JDict(d) == [t |-> "dict", d |-> d]
JList(l) == [t |-> "list", l |-> l]
EmptyDict == JDict(<<>>)
EmptyList == JList(<<>>)

\* the exception value
Raised == [t |-> "raised"]
IsRaised(r) == r.t = "raised"

\* a list handed on by a loop that did not raise
Ok(v) == [t |-> "ok", v |-> v]

IsDict(v) == v.t = "dict"
IsList(v) == v.t = "list"
IsStr(v) == v.t = "str"

\* bool(v)
Truthy(v) ==
  CASE v.t = "none" -> FALSE
    [] v.t = "str" -> Len(v.s) > 0
    [] v.t = "int" -> v.hi # 0 \/ v.lo # 0
    [] v.t = "float" -> v.k # "fin" \/ v.c # 0
    [] v.t = "bool" -> v.b
    [] v.t = "dict" -> DOMAIN v.d # {}
    [] v.t = "list" -> Len(v.l) > 0

\* dict.get(key): None for an absent key
Get(item, key) == IF key \in DOMAIN item.d THEN item.d[key] ELSE JNone

\* a or b or ... : the first truthy operand, else the last one
RECURSIVE OrChain(_)
OrChain(vals) ==
  IF Len(vals) = 1 \/ Truthy(vals[1]) THEN vals[1] ELSE OrChain(Tail(vals))

GetOr(item, keys) == OrChain([i \in 1..Len(keys) |-> Get(item, keys[i])])

\* str(v); the repr of a container is abbreviated to its brackets
PyStr(v) ==
  CASE v.t = "none" -> <<"N","o","n","e">>
    [] v.t = "str" -> v.s
    [] v.t = "int" ->
         (IF v.neg THEN <<"-">> ELSE <<>>) \o
         (IF v.hi = 0 THEN NatStr(v.lo)
          ELSE NatStr(v.hi) \o SubSeq(NatStr(Billion + v.lo), 2, 10))
    [] v.t = "float" ->
         IF v.k = "nan" THEN <<"n","a","n">>
         ELSE IF v.k = "inf" THEN <<"i","n","f">>
         ELSE (IF v.c < 0 THEN <<"-">> ELSE <<>>) \o
              LET a == IF v.c < 0 THEN 0 - v.c ELSE v.c
              IN NatStr(a \div 100) \o <<".">> \o
                 (IF a % 10 = 0 THEN NatStr((a % 100) \div 10)
                  ELSE SubSeq(NatStr(100 + (a % 100)), 2, 3))
    [] v.t = "bool" -> IF v.b THEN <<"T","r","u","e">> ELSE <<"F","a","l","s","e">>
    [] v.t = "dict" -> <<"{","}">>
    [] v.t = "list" -> <<"[","]">>


(***************************************************************************)
(* parser.py                                                               *)
(***************************************************************************)
\* a datetime: day since 1970-01-01, second of the day, millisecond
Dt(day, sod, ms) == [t |-> "dt", day |-> day, sod |-> sod, ms |-> ms]

SecondsPerDay == 86400
\* 10^9 = DaysPerBillion * 86400 + SecondsPerBillionRest
DaysPerBillion == 11574
SecondsPerBillionRest == 6400
\* datetime.max (9999-12-31 23:59:59) is epoch second 253 * 10^9 + 402300799
MaxEpochHi == 253
MaxEpochLo == 402300799

\* datetime.fromtimestamp of hi * 10^9 + lo seconds; it raises past year 9999
FromTimestamp(hi, lo, ms) ==
  IF hi > MaxEpochHi \/ (hi = MaxEpochHi /\ lo > MaxEpochLo) THEN Raised
  ELSE LET rest == hi * SecondsPerBillionRest + lo
       IN Dt(hi * DaysPerBillion + rest \div SecondsPerDay, rest % SecondsPerDay, ms)

\* the date strings dateutil is given here
DateFull == <<"2","0","2","4","-","0","5","-","0","1">>
TimeOnly == <<"1","8",":","0","0">>
DateFullDay == 19844
TimeOnlySod == 64800

\* dateutil.parser.parse(value): the fields a string does not state are taken
\* from the current date; a string it cannot read raises ParserError
DateutilParse(s, today) ==
  CASE Strip(s) = DateFull -> Dt(DateFullDay, 0, 0)
    [] Strip(s) = TimeOnly -> Dt(today, TimeOnlySod, 0)
    [] OTHER -> Raised

\* a variant: 10,000,000,000 itself counts as milliseconds
AtLeastTenBillion(v) == ~v.neg /\ v.hi >= 10

\* value > 10_000_000_000 for an int
AboveTenBillion(v) == ~v.neg /\ (v.hi > 10 \/ (v.hi = 10 /\ v.lo > 0))

ParseDatetimeNumber(value) ==
  CASE value.t = "bool" -> FromTimestamp(0, IF value.b THEN 1 ELSE 0, 0)
    [] value.t = "float" ->
         IF value.k # "fin" THEN Raised
         ELSE Dt((value.c \div 100) \div SecondsPerDay,
                 (value.c \div 100) % SecondsPerDay, (value.c % 100) * 10)
    [] value.t = "int" ->
         IF value.neg
         THEN Dt((0 - value.lo) \div SecondsPerDay, (0 - value.lo) % SecondsPerDay, 0)
         ELSE IF AboveTenBillion(value)
         THEN FromTimestamp(value.hi \div 1000,
                            (value.hi % 1000) * 1000000 + value.lo \div 1000,
                            value.lo % 1000)
         ELSE FromTimestamp(value.hi, value.lo, 0)

\* except Exception: return None
NoneIfRaised(r) == IF IsRaised(r) THEN JNone ELSE r

parse_datetime(value, today) ==
  IF value.t = "none" THEN JNone
  ELSE IF value.t \in {"int", "float", "bool"} THEN NoneIfRaised(ParseDatetimeNumber(value))
  ELSE IF value.t = "str" /\ Len(Strip(value.s)) > 0
  THEN NoneIfRaised(DateutilParse(value.s, today))
  ELSE JNone

Keywords ==
  << <<"e","-","s","p","o","r","t">>, <<"e","s","p","o","r","t">>,
     <<"e","f","o","o","t","b","a","l","l">>, <<"e","-","f","o","o","t","b","a","l","l">>,
     <<"e"," ","f","o","c","i">>, <<"f","i","f","a">>, <<"e","-","f","o","o","t">>,
     <<"v","i","r","t","u","a","l"," ","f","o","o","t","b","a","l","l">> >>

HasKeyword(s) == \E i \in 1..Len(Keywords) : Contains(s, Keywords[i])

\* (str(a) or str(b) or ""), the operands of is_esport_football
StrOr(vals) == OrChain([i \in 1..Len(vals) |-> JStr(PyStr(vals[i]))] \o <<JStr(<<>>)>>).s

FilterSport(item) == Lower(StrOr(<<Get(item, "sport"), Get(item, "sportName")>>))
FilterLeague(item) == Lower(StrOr(<<Get(item, "league"), Get(item, "tournament")>>))
FilterName(item) == Lower(StrOr(<<Get(item, "name")>>))

is_esport_football(item) ==
  HasKeyword(JoinSpace(<<FilterSport(item), FilterLeague(item), FilterName(item)>>))

\* the value in hundredths of the digits ip before and fp after the point
Hundredths(ip, fp) ==
  100 * DigitsVal(ip) +
    (IF Len(fp) = 0 THEN 0
     ELSE IF Len(fp) = 1 THEN 10 * DigitVal(fp[1])
     ELSE DigitsVal(SubSeq(fp, 1, 2)))

OnlyDigits(p) == \A i \in 1..Len(p) : IsDigit(p[i])

PyFloatDigits(neg, ip, fp) ==
  IF OnlyDigits(ip) /\ OnlyDigits(fp) /\ Len(ip) + Len(fp) > 0
  THEN JFloat(IF neg THEN 0 - Hundredths(ip, fp) ELSE Hundredths(ip, fp))
  ELSE Raised

PyFloatParts(neg, u, dot) ==
  PyFloatDigits(neg, IF dot = 0 THEN u ELSE SubSeq(u, 1, dot - 1),
                IF dot = 0 THEN <<>> ELSE SubSeq(u, dot + 1, Len(u)))

PyFloatSigned(neg, u) ==
  IF Lower(u) = <<"n","a","n">> THEN JNaN
  ELSE IF Lower(u) = <<"i","n","f">> THEN JInf
  ELSE PyFloatParts(neg, u, Find(u, <<".">>))

PyFloatStripped(b) ==
  PyFloatSigned(Len(b) > 0 /\ b[1] = "-",
                IF Len(b) > 0 /\ b[1] \in {"-", "+"} THEN Tail(b) ELSE b)

\* float(x) of a string: blanks stripped, an optional sign, digits with an optional
\* point (prices carry at most two decimals here), or nan / inf
PyFloatStr(s) == PyFloatStripped(Strip(s))

\* float(x)
PyFloat(v) ==
  CASE v.t = "str" -> PyFloatStr(v.s)
    [] v.t = "int" -> JFloat(IF v.neg THEN 0 - 100 * v.lo ELSE 100 * v.lo)
    [] v.t = "float" -> v
    [] v.t = "bool" -> JFloat(IF v.b THEN 100 ELSE 0)
    [] OTHER -> Raised

MatchOdd(market, selection, odds) ==
  [market |-> market, selection |-> selection, odds |-> odds]

\* `for x in v`: v is a list here, or a value whose iteration fails
\* (a number) or yields strings on which .get fails (a str, a dict's keys)
IterOrRaise(v) == IF IsList(v) THEN Ok(v.l) ELSE Raised

\* a variant: a price that cannot be converted discards the odds read so far
AppendOddOrReset(results, market_name, selection_name, price_f) ==
  IF IsRaised(price_f) THEN <<>>
  ELSE Append(results, MatchOdd(market_name, selection_name, price_f))

\* try: price_f = float(price) except: continue; results.append(MatchOdd(...))
AppendOdd(results, market_name, selection_name, price_f) ==
  IF IsRaised(price_f) THEN results
  ELSE Append(results, MatchOdd(market_name, selection_name, price_f))

\* the inner loop of parse_odds over the selections of one market
RECURSIVE ParseSelections(_, _, _)
ParseSelections(market_name, sels, results) ==
  IF Len(sels) = 0 THEN Ok(results)
  ELSE IF ~IsDict(sels[1]) THEN Raised
  ELSE ParseSelections(market_name, Tail(sels),
         AppendOdd(results, market_name,
                   Strip(PyStr(OrChain(<<Get(sels[1], "name"), Get(sels[1], "selection"),
                                         Get(sels[1], "outcome"), JStr(<<>>)>>))),
                   PyFloat(GetOr(sels[1], <<"odds", "price", "decimal", "value">>))))

RECURSIVE ParseMarkets(_, _)

\* the markets after the first, r being what the first market's selections gave
ParseMarketsRest(markets, r) ==
  IF IsRaised(r) THEN Raised ELSE ParseMarkets(Tail(markets), r.v)

\* the first market: its selections iterated
ParseMarket(markets, results, market_name, selections) ==
  IF IsRaised(selections) THEN Raised
  ELSE ParseMarketsRest(markets, ParseSelections(market_name, selections.v, results))

\* the outer loop of parse_odds over the markets
ParseMarkets(markets, results) ==
  IF Len(markets) = 0 THEN Ok(results)
  ELSE IF ~IsDict(markets[1]) THEN Raised
  ELSE ParseMarket(markets, results,
         Strip(PyStr(OrChain(<<Get(markets[1], "name"), Get(markets[1], "market"),
                               JStr(<<>>)>>))),
         IterOrRaise(OrChain(<<Get(markets[1], "selections"), Get(markets[1], "outcomes"),
                               EmptyList>>)))

ParseMarketList(markets) == IF IsRaised(markets) THEN Raised ELSE ParseMarkets(markets.v, <<>>)

parse_odds(raw) ==
  ParseMarketList(IterOrRaise(OrChain(<<Get(raw, "markets"), Get(raw, "odds"), EmptyList>>)))

\* the return value None of parse_match
NoMatch == [t |-> "nomatch"]

\* .get("name") of the dict an `or` chain gave; a non-dict has no .get
NameOf(d) == IF IsDict(d) THEN Get(d, "name") ELSE Raised

\* lines 65-66: one team side, for the keys k1 (homeTeam), k2 (home), k3 (team1)
TeamSide(item, k1, k2, k3) ==
  IF IsDict(Get(item, k1))
  THEN NameOf(OrChain(<<Get(item, k1), Get(item, k2), Get(item, k3), EmptyDict>>))
  ELSE GetOr(item, <<k1, k2, k3>>)

\* lines 67-70: a dict side is replaced by its name
TeamName(side) == IF IsDict(side) THEN Get(side, "name") ELSE side

\* lines 79-100: the Match of a record with both teams known
BuildMatch(item, home, away, tournament, start_time, odds) ==
  IF IsRaised(odds) THEN Raised
  ELSE IF ~is_esport_football(item) THEN NoMatch
  ELSE [t |-> "match",
        match_id |-> PyStr(OrChain(
          <<Get(item, "id"), Get(item, "matchId"), Get(item, "eventId"), Get(item, "fixtureId"),
            JStr(PyStr(home) \o <<"-">> \o PyStr(away) \o <<"-">> \o PyStr(Get(item, "start")))>>)),
        sport |-> Strip(PyStr(OrChain(
          <<Get(item, "sport"), Get(item, "sportName"), JStr(<<"E","-","s","p","o","r","t">>)>>))),
        tournament |-> IF Truthy(tournament) THEN JStr(PyStr(tournament)) ELSE JNone,
        home_team |-> PyStr(home),
        away_team |-> PyStr(away),
        start_time |-> start_time,
        is_live |-> Truthy(GetOr(item, <<"live", "inplay", "isLive">>)),
        odds |-> odds.v,
        raw |-> item]

\* lines 76-85: no Match without both teams
ParseMatchTeams(item, today, home, away) ==
  IF ~Truthy(home) \/ ~Truthy(away) THEN NoMatch
  ELSE BuildMatch(item, home, away,
                  GetOr(item, <<"tournament", "league", "competition">>),
                  parse_datetime(GetOr(item, <<"start", "startTime", "kickoff", "date">>), today),
                  parse_odds(item))

\* lines 72-75: home and away from "Home - Away" when a side is missing
ParseMatchSplit(item, today, home, away, name, split) ==
  ParseMatchTeams(item, today,
                  IF split THEN JStr(Strip(SplitOnce(name, <<" ","-"," ">>)[1])) ELSE home,
                  IF split THEN JStr(Strip(SplitOnce(name, <<" ","-"," ">>)[2])) ELSE away)

\* lines 71-72
ParseMatchNamed(item, today, home, away, name) ==
  ParseMatchSplit(item, today, home, away, name,
                  (~Truthy(home) \/ ~Truthy(away)) /\ Len(name) > 0
                    /\ Contains(name, <<" ","-"," ">>))

\* lines 67-71
ParseMatchSides(item, today, home, away) ==
  IF IsRaised(home) \/ IsRaised(away) THEN Raised
  ELSE ParseMatchNamed(item, today, home, away,
                       Strip(PyStr(OrChain(<<Get(item, "name"), JStr(<<>>)>>))))

\* the body of the try block of parse_match; today is the date of the clock
ParseMatchBody(item, today) ==
  IF ~IsDict(item) THEN Raised
  ELSE ParseMatchSides(item, today,
                       TeamName(TeamSide(item, "homeTeam", "home", "team1")),
                       TeamName(TeamSide(item, "awayTeam", "away", "team2")))

\* parse_match without its `except Exception: return None`
ParseMatchUncaught(item, today) == ParseMatchBody(item, today)

\* except Exception: return None
NoMatchIfRaised(r) == IF IsRaised(r) THEN NoMatch ELSE r

parse_match(item, today) == NoMatchIfRaised(ParseMatchBody(item, today))

(***************************************************************************)
(* storage.py: the Event Store.  A table is the set (matches, odds) or the *)
(* sequence in rowid order (the AUTOINCREMENT tables) of its rows.  Every  *)
(* call opens its own connection; its statements run in one implicit       *)
(* transaction on a private copy of the database (`work`) under SQLite's   *)
(* single write lock, and only commit() publishes them.  Closing the       *)
(* connection without commit() rolls the transaction back.                 *)
(***************************************************************************)
VARIABLES
  db,         \* the committed database, what any other connection reads
  lock,       \* the task whose connection holds the write lock, or 0
  work,       \* the lock holder's uncommitted view of the database
  tx,         \* per task: the store call it is in
  clock,      \* the wall clock, in ticks
  committed,  \* history: the upsert_match calls committed so far, in commit order
  ncalls,     \* the number of store calls and payloads started so far
  today,      \* the calendar day of the wall clock
  pp,         \* per task: the process_payload call it is in
  item,       \* the record parse_match is applied to
  parsed,     \* history: what the applications of parse_match to item returned
  env,        \* the network as the Mitigation Engine finds it
  rot,        \* the auto_mitigate / rotate_proxy call
  active_proxy, \* the content of ACTIVE_PROXY_FILE (the Active Proxy State)
  osenv,      \* per reader: PROXY_URL, HTTPS_PROXY, HTTP_PROXY of its process
  rd,         \* per reader: its last get_proxy_from_env call
  advice,     \* the last choose_mitigation call: its argument and its result
  cap,        \* per capture source: its supervisor, its cycle and its session
  wall,       \* the seconds since the capture sources were started
  fetch,      \* the fetch_candidates call: its position, its list and its result
  cycle,      \* the poll_api_once call of the poller: its endpoint and its history
  hunt        \* tools/find_hu_proxy: main, its queue, its future and its workers

storeVars == <<db, lock, work, tx, clock, committed, ncalls>>
pipeVars == <<pp>>
parseVars == <<item, parsed>>
rotVars == <<env, rot, active_proxy>>
readVars == <<osenv, rd>>
clsVars == <<advice>>
capVars == <<cap, wall>>
fetchVars == <<fetch>>
cycleVars == <<cycle>>
huntVars == <<hunt>>
vars == <<storeVars, today, pipeVars, parseVars, rotVars, readVars, clsVars, capVars, fetchVars, cycleVars, huntVars>>

\* the database after init_db: SCHEMA_SQL creates the tables empty
EmptyDb == [matches |-> {}, odds |-> {}, raw_responses |-> <<>>,
            network_events |-> <<>>, block_events |-> <<>>]

\* datetime.isoformat(), the sortable text of a timestamp
IsoFormat(dt) == <<dt.day, dt.sod, dt.ms * 1000>>

\* the parameters upsert_match binds for the matches row
MatchStmt(match, now) ==
  [op |-> "upsert_match_row",
   row |-> [match_id |-> match.match_id, sport |-> match.sport,
            tournament |-> match.tournament, home_team |-> match.home_team,
            away_team |-> match.away_team,
            start_time |-> IF match.start_time.t = "dt"
                           THEN JStr(IsoFormat(match.start_time)) ELSE JNone,
            is_live |-> IF match.is_live THEN 1 ELSE 0,
            created_at |-> now, updated_at |-> now]]

\* the parameters upsert_match binds for one odds row
OddsStmt(match, o, now) ==
  [op |-> "upsert_odds_row",
   row |-> [match_id |-> match.match_id, market |-> o.market,
            selection |-> o.selection, odds |-> o.odds, updated_at |-> now]]

\* the statements of one upsert_match call, in execution order
UpsertStmts(match, now) ==
  <<MatchStmt(match, now)>> \o [i \in 1..Len(match.odds) |-> OddsStmt(match, match.odds[i], now)]

\* sqlite3 binds a NaN float as NULL
BindsNull(v) == v.t = "none" \/ (v.t = "float" /\ v.k = "nan")

SameOddsKey(r, q) ==
  r.match_id = q.match_id /\ r.market = q.market /\ r.selection = q.selection

\* a variant: INSERT OR REPLACE INTO matches, which deletes the old row and, by
\* ON DELETE CASCADE, its odds rows
ExecMatchRowReplace(d, row) ==
  [ok |-> TRUE,
   db |-> [d EXCEPT !.matches = {r \in d.matches : r.match_id # row.match_id} \cup {row},
                    !.odds = {r \in d.odds : r.match_id # row.match_id}]]

\* INSERT INTO matches ... ON CONFLICT(match_id) DO UPDATE SET (all but created_at)
ExecMatchRow(d, row) ==
  IF \E r \in d.matches : r.match_id = row.match_id
  THEN [ok |-> TRUE,
        db |-> [d EXCEPT !.matches =
                  {IF r.match_id = row.match_id
                   THEN [row EXCEPT !.created_at = r.created_at] ELSE r : r \in d.matches}]]
  ELSE [ok |-> TRUE, db |-> [d EXCEPT !.matches = d.matches \cup {row}]]

\* a variant: ON CONFLICT(match_id, market, selection) DO NOTHING
ExecOddsRowIgnore(d, row) ==
  IF BindsNull(row.odds) THEN [ok |-> FALSE, db |-> d]
  ELSE IF \E r \in d.odds : SameOddsKey(r, row) THEN [ok |-> TRUE, db |-> d]
  ELSE [ok |-> TRUE, db |-> [d EXCEPT !.odds = d.odds \cup {row}]]

\* INSERT INTO odds ... ON CONFLICT(match_id, market, selection) DO UPDATE SET odds, updated_at
\* (odds REAL NOT NULL; foreign keys are not enforced: no PRAGMA foreign_keys)
ExecOddsRow(d, row) ==
  IF BindsNull(row.odds) THEN [ok |-> FALSE, db |-> d]
  ELSE IF \E r \in d.odds : SameOddsKey(r, row)
  THEN [ok |-> TRUE,
        db |-> [d EXCEPT !.odds = {IF SameOddsKey(r, row) THEN row ELSE r : r \in d.odds}]]
  ELSE [ok |-> TRUE, db |-> [d EXCEPT !.odds = d.odds \cup {row}]]

\* a variant: raw_responses.match_id REFERENCES matches(match_id), enforced
ExecRawRowForeignKey(d, row) ==
  IF row.match_id.t = "none" \/ \E r \in d.matches : r.match_id = row.match_id.s
  THEN [ok |-> TRUE,
        db |-> [d EXCEPT !.raw_responses =
                  Append(d.raw_responses, [row EXCEPT !.id = Len(d.raw_responses) + 1])]]
  ELSE [ok |-> FALSE, db |-> d]

\* INSERT INTO raw_responses(match_id, payload, received_at): match_id has no
\* constraint, id is the next rowid
ExecRawRow(d, row) ==
  [ok |-> TRUE,
   db |-> [d EXCEPT !.raw_responses =
             Append(d.raw_responses, [row EXCEPT !.id = Len(d.raw_responses) + 1])]]

\* INSERT INTO network_events(...)
ExecNetRow(d, row) ==
  [ok |-> TRUE,
   db |-> [d EXCEPT !.network_events =
             Append(d.network_events, [row EXCEPT !.id = Len(d.network_events) + 1])]]

\* INSERT INTO block_events(...)
ExecBlockRow(d, row) ==
  [ok |-> TRUE,
   db |-> [d EXCEPT !.block_events =
             Append(d.block_events, [row EXCEPT !.id = Len(d.block_events) + 1])]]

\* db.execute(stmt) on the view d: the new view, or ok = FALSE for an IntegrityError
ExecStmt(d, stmt) ==
  CASE stmt.op = "upsert_match_row" -> ExecMatchRow(d, stmt.row)
    [] stmt.op = "upsert_odds_row" -> ExecOddsRow(d, stmt.row)
    [] stmt.op = "insert_raw" -> ExecRawRow(d, stmt.row)
    [] stmt.op = "insert_network_event" -> ExecNetRow(d, stmt.row)
    [] stmt.op = "insert_block_event" -> ExecBlockRow(d, stmt.row)

\* the timestamp an audit insert binds: datetime.utcnow() when execute() is called
Stamp(stmt, now) ==
  CASE stmt.op = "insert_raw" -> [stmt EXCEPT !.row.received_at = now]
    [] stmt.op \in {"insert_network_event", "insert_block_event"} ->
         [stmt EXCEPT !.row.occurred_at = now]
    [] OTHER -> stmt

\* json.dumps(payload, ensure_ascii=False): the text of a JSON value
JsonDumps(v) == [json |-> v]

\* a variant: a connection in autocommit mode (isolation_level=None)
VisibleAutocommit(d, w) == w

\* what the other connections read after a statement of an open transaction:
\* the implicit transaction of sqlite3 keeps it private until commit()
VisibleAfterExecute(d, w) == d

\* what the other connections read after commit()
VisibleAfterCommit(d, w) == w

\* what the other connections read after the connection is closed uncommitted
VisibleAfterRollback(d, w) == d

Tasks == {1, 2}

IdleTx == [pc |-> "idle", kind |-> "none", stmts |-> <<>>, cause |-> "none",
           match |-> NoMatch, now |-> 0]

\* the call has returned (pc "ok") or raised; cause tells an IntegrityError of
\* the statements from a failure of the environment
Finished(t, pc, cause) == [IdleTx EXCEPT !.pc = pc, !.kind = t.kind, !.cause = cause]

\* the call opens its connection: nothing is written yet
StartTx(kind, stmts, match, now) ==
  [pc |-> "run", kind |-> kind, stmts |-> stmts, cause |-> "none",
   match |-> match, now |-> now]

upsert_match(match, now) == StartTx("upsert_match", UpsertStmts(match, now), match, now)

insert_raw(match_id, payload) ==
  StartTx("insert_raw",
          <<[op |-> "insert_raw",
             row |-> [id |-> 0, match_id |-> match_id, payload |-> JsonDumps(payload),
                      received_at |-> 0]]>>, NoMatch, 0)

insert_network_event(phase, url, status, error) ==
  StartTx("insert_network_event",
          <<[op |-> "insert_network_event",
             row |-> [id |-> 0, occurred_at |-> 0, phase |-> phase, url |-> url,
                      status |-> status, error |-> error]]>>, NoMatch, 0)

insert_block_event(source, url, status, block_type, evidence) ==
  StartTx("insert_block_event",
          <<[op |-> "insert_block_event",
             row |-> [id |-> 0, occurred_at |-> 0, source |-> source, url |-> url,
                      status |-> status, block_type |-> block_type,
                      evidence |-> evidence]]>>, NoMatch, 0)

\* db.execute returned r for task c's view base: the view goes on, or an
\* IntegrityError leaves the `async with`, which closes the connection and so
\* rolls back
Executed(c, base, r) ==
  IF r.ok
  THEN /\ lock' = c
       /\ work' = r.db
       /\ db' = VisibleAfterExecute(db, r.db)
       /\ tx' = [tx EXCEPT ![c].stmts = Tail(tx[c].stmts)]
  ELSE /\ lock' = 0
       /\ work' = EmptyDb
       /\ db' = VisibleAfterRollback(db, base)
       /\ tx' = [tx EXCEPT ![c] = Finished(tx[c], "raised", "integrity")]

\* the database as task c's connection sees it
ViewOf(c) == IF lock = c THEN work ELSE db

\* await db.execute(...): the next statement of task c's call.  The first one
\* takes the write lock.
StoreExecute(c) ==
  /\ tx[c].pc = "run"
  /\ Len(tx[c].stmts) > 0
  /\ lock \in {0, c}
  /\ Executed(c, ViewOf(c), ExecStmt(ViewOf(c), Stamp(Head(tx[c].stmts), clock)))
  /\ UNCHANGED <<clock, committed, ncalls, today, pipeVars, parseVars, rotVars, readVars, clsVars, capVars, fetchVars, cycleVars, huntVars>>

\* await db.commit()
StoreCommit(c) ==
  /\ tx[c].pc = "run"
  /\ Len(tx[c].stmts) = 0
  /\ lock = c
  /\ db' = VisibleAfterCommit(db, work)
  /\ lock' = 0
  /\ work' = EmptyDb
  /\ tx' = [tx EXCEPT ![c] = Finished(tx[c], "ok", "none")]
  /\ committed' = IF tx[c].kind = "upsert_match"
                  THEN Append(committed, [match_id |-> tx[c].match.match_id,
                                         odds |-> tx[c].match.odds, now |-> tx[c].now])
                  ELSE committed
  /\ UNCHANGED <<clock, ncalls, today, pipeVars, parseVars, rotVars, readVars, clsVars, capVars, fetchVars, cycleVars, huntVars>>

\* the call fails or is cancelled before its commit (an I/O error, "database is
\* locked" after the busy timeout, CancelledError): the connection is closed
StoreAbort(c) ==
  /\ tx[c].pc = "run"
  /\ lock' = IF lock = c THEN 0 ELSE lock
  /\ work' = IF lock = c THEN EmptyDb ELSE work
  /\ db' = IF lock = c THEN VisibleAfterRollback(db, work) ELSE db
  /\ tx' = [tx EXCEPT ![c] = Finished(tx[c], "raised", "abort")]
  /\ UNCHANGED <<clock, committed, ncalls, today, pipeVars, parseVars, rotVars, readVars, clsVars, capVars, fetchVars, cycleVars, huntVars>>

\* time passes
Tick ==
  /\ clock < MaxClock
  /\ clock' = clock + 1
  /\ UNCHANGED <<db, lock, work, tx, committed, ncalls, today, pipeVars, parseVars, rotVars, readVars, clsVars, capVars, fetchVars, cycleVars, huntVars>>

(***************************************************************************)
(* The values the checked runs draw their inputs from                      *)
(***************************************************************************)
sA == <<"A">>
sB == <<"B">>
s42 == <<"4","2">>
s7 == <<"7">>
s99 == <<"9","9">>
sEsport == <<"E","-","s","p","o","r","t">>
sTennis == <<"T","e","n","n","i","s">>
s1X2 == <<"1","X","2">>
sHome == <<"H","o","m","e">>
sAway == <<"A","w","a","y">>
sFoci == <<"F","o","c","i">>
sFifa == <<"F","I","F","A">>
sAB == <<"A"," ","-"," ","B">>
sNan == <<"n","a","n">>
p185 == <<"1",".","8","5">>
p210 == <<"2",".","1">>
p150 == <<"1",".","5","0">>
\* the day the runs start on
BaseDay == DateFullDay

Sel(name, price) == JDict([name |-> JStr(name), odds |-> price])
Market(name, sels) == JDict([name |-> JStr(name), selections |-> JList(sels)])

MarketsOne == JList(<<Market(s1X2, <<Sel(sHome, JStr(p185))>>)>>)
MarketsOneB == JList(<<Market(s1X2, <<Sel(sHome, JFloat(210))>>)>>)
MarketsTwo == JList(<<Market(s1X2, <<Sel(sHome, JStr(p185)), Sel(sAway, JStr(p210))>>)>>)
MarketsAway == JList(<<Market(s1X2, <<Sel(sAway, JStr(p150))>>)>>)
MarketsNan == JList(<<Market(s1X2, <<Sel(sAway, JStr(p150)), Sel(sHome, JStr(sNan))>>)>>)
MarketsTwice == JList(<<Market(s1X2, <<Sel(sHome, JStr(p185)), Sel(sHome, JStr(p150))>>)>>)

EsportItem(id, markets) ==
  JDict([id |-> JStr(id), home |-> JStr(sA), away |-> JStr(sB),
         sport |-> JStr(sEsport), markets |-> markets])

\* the matches the store runs upsert: what parse_match makes of these records
StoreItems ==
  {EsportItem(s42, mk) : mk \in {MarketsOne, MarketsOneB, MarketsTwo, MarketsNan, MarketsTwice}}
    \cup {EsportItem(s7, MarketsAway)}
StoreMatches == {parse_match(it, BaseDay) : it \in StoreItems} \ {NoMatch}

RawMatchIds == {JNone, JStr(s42)}

(***************************************************************************)
(* The store under concurrent callers: each task calls the store's          *)
(* functions one after another, in any interleaving with the other task.   *)
(***************************************************************************)
CanCall(c) == tx[c].pc \in {"idle", "ok", "raised"} /\ ncalls < MaxCalls

CallUpsertMatch(c) ==
  /\ CanCall(c)
  /\ \E m \in StoreMatches : tx' = [tx EXCEPT ![c] = upsert_match(m, clock)]
  /\ ncalls' = ncalls + 1
  /\ UNCHANGED <<db, lock, work, clock, committed, today, pipeVars, parseVars, rotVars, readVars, clsVars, capVars, fetchVars, cycleVars, huntVars>>

CallInsertRaw(c) ==
  /\ CanCall(c)
  /\ \E mid \in RawMatchIds : tx' = [tx EXCEPT ![c] = insert_raw(mid, EmptyDict)]
  /\ ncalls' = ncalls + 1
  /\ UNCHANGED <<db, lock, work, clock, committed, today, pipeVars, parseVars, rotVars, readVars, clsVars, capVars, fetchVars, cycleVars, huntVars>>

CallInsertNetworkEvent(c) ==
  /\ CanCall(c)
  /\ tx' = [tx EXCEPT ![c] = insert_network_event("response", "/api", JInt(200), JNone)]
  /\ ncalls' = ncalls + 1
  /\ UNCHANGED <<db, lock, work, clock, committed, today, pipeVars, parseVars, rotVars, readVars, clsVars, capVars, fetchVars, cycleVars, huntVars>>

CallInsertBlockEvent(c) ==
  /\ CanCall(c)
  /\ tx' = [tx EXCEPT ![c] = insert_block_event("web", "/api", JInt(302), "geo_ip_block", "redirect")]
  /\ ncalls' = ncalls + 1
  /\ UNCHANGED <<db, lock, work, clock, committed, today, pipeVars, parseVars, rotVars, readVars, clsVars, capVars, fetchVars, cycleVars, huntVars>>

\* the store after init_db, no call under way
StoreIdle ==
  /\ db = EmptyDb
  /\ lock = 0
  /\ work = EmptyDb
  /\ tx = [c \in Tasks |-> IdleTx]
  /\ clock = 0
  /\ committed = <<>>
  /\ ncalls = 0

IdlePp == [pc |-> "idle", path |-> "none", payload |-> JNone, cands |-> <<>>, i |-> 0,
           inserted |-> 0, match |-> NoMatch, cause |-> "none",
           status |-> 0, location |-> JNone, ctype |-> <<>>, history |-> <<>>]
PipeIdle == pp = [c \in Tasks |-> IdlePp]
ParseIdle == item = JNone /\ parsed = <<>>
\* no auto_mitigate call yet, no ACTIVE_PROXY_FILE, no network looked at
RetNone == "None"
AbsentFile == [exists |-> FALSE, text |-> ""]
IdleRot == [pc |-> "idle", block_type |-> <<>>, before |-> RetNone, lo |-> 1, started |-> {},
            answered |-> <<>>, selected |-> 0, ret |-> RetNone]
RotIdle == env = <<>> /\ rot = IdleRot /\ active_proxy = AbsentFile
\* the processes that read the Active Proxy State: a capture source in the
\* process that rotates, and one in another process (`scrape` beside `mitigate`)
Readers == {"same", "other"}
\* os.getenv of a variable that is not set
Unset == RetNone
NoOverride == [PROXY_URL |-> Unset, HTTPS_PROXY |-> Unset, HTTP_PROXY |-> Unset]
IdleRd == [ret |-> RetNone, at |-> "none", readable |-> TRUE, state |-> AbsentFile]
ReadIdle == osenv = [r \in Readers |-> NoOverride] /\ rd = [r \in Readers |-> IdleRd]
\* no choose_mitigation call yet
NoAdvice == [asked |-> FALSE, block_type |-> JNone, strat |-> ""]
ClsIdle == advice = NoAdvice
\* the workers main creates (60 in find_hu_proxy)
MaxWorkers == 2
\* the capture sources before cli.scrape creates their tasks
Sources == {"web", "api"}
IdleCap == [sup |-> "off", pc |-> "none", session |-> "none", context |-> "none",
            orphans |-> 0, proxy |-> RetNone, tries |-> 0, elapsed |-> 0, wake |-> 0,
            waited |-> 0, geo |-> FALSE]
CapIdle == cap = [s \in Sources |-> IdleCap] /\ wall = 0
\* before fetch_candidates is called
IdleFetch == [pc |-> "idle", k |-> 0, answers |-> <<>>, res |-> <<>>, ret |-> <<>>]
FetchIdle == fetch = IdleFetch
\* before run_api_poller opens its client
IdleCycle == [pc |-> "off", k |-> 0, answer |-> "none", requested |-> <<>>, faults |-> {},
              events |-> <<>>, client |-> "none", cycles |-> 0]
CycleIdle == cycle = IdleCycle
\* tools/find_hu_proxy before it is run
HuntWorkers == 1..MaxWorkers
IdleHunt == [main |-> "off", sample |-> <<>>, queue |-> <<>>, unfinished |-> 0, result |-> 0,
             sets |-> 0, code |-> -1, printed |-> -1,
             w |-> [i \in HuntWorkers |-> [pc |-> "none", proxy |-> 0]]]
HuntIdle == hunt = IdleHunt

StoreInit == StoreIdle /\ today = BaseDay /\ PipeIdle /\ ParseIdle /\ RotIdle /\ ReadIdle /\ ClsIdle /\ CapIdle /\ FetchIdle /\ CycleIdle /\ HuntIdle

StoreNext ==
  \/ \E c \in Tasks : CallUpsertMatch(c)
  \/ \E c \in Tasks : CallInsertRaw(c)
  \/ \E c \in Tasks : CallInsertNetworkEvent(c)
  \/ \E c \in Tasks : CallInsertBlockEvent(c)
  \/ \E c \in Tasks : StoreExecute(c)
  \/ \E c \in Tasks : StoreCommit(c)
  \/ \E c \in Tasks : StoreAbort(c)
  \/ Tick

SpecStore == StoreInit /\ [][StoreNext]_vars

(***************************************************************************)
(* The Event Store's contract                                              *)
(***************************************************************************)
CommittedIds == {committed[i].match_id : i \in 1..Len(committed)}

HasKey(h, r) ==
  /\ h.match_id = r.match_id
  /\ \E j \in 1..Len(h.odds) : h.odds[j].market = r.market /\ h.odds[j].selection = r.selection

\* the price the committed call h gives the key of row r: its last entry for it
LastPrice(h, r) ==
  LET js == {j \in 1..Len(h.odds) :
               h.odds[j].market = r.market /\ h.odds[j].selection = r.selection}
  IN h.odds[CHOOSE j \in js : \A k \in js : k <= j].odds

\* the most recent committed call that contained the key of row r
LastCallWith(r) ==
  LET is == {i \in 1..Len(committed) : HasKey(committed[i], r)}
  IN CHOOSE i \in is : \A k \in is : k <= i

\* C1: after any sequence of upsert_match calls the matches table holds exactly
\* one row per match_id ever upserted, the odds table at most one row per
\* (match_id, market, selection), and each odds row has the price of the most
\* recent committed call that contained its key.
C1_OneRowLatestPrice ==
  /\ \A id \in CommittedIds : Cardinality({r \in db.matches : r.match_id = id}) = 1
  /\ \A r \in db.matches : r.match_id \in CommittedIds
  /\ \A r, q \in db.odds : SameOddsKey(r, q) => r = q
  /\ \A r \in db.odds :
       /\ \E i \in 1..Len(committed) : HasKey(committed[i], r)
       /\ r.odds = LastPrice(committed[LastCallWith(r)], r)

\* two committed calls for match 42 with different prices for (1X2, Home), the
\* row carrying the later one
C1_Witness ==
  /\ Len(committed) = 2
  /\ committed[1].match_id = s42 /\ committed[2].match_id = s42
  /\ \E r \in db.odds :
       /\ r.market = s1X2 /\ r.selection = sHome
       /\ HasKey(committed[1], r) /\ HasKey(committed[2], r)
       /\ LastPrice(committed[1], r) # LastPrice(committed[2], r)
       /\ r.odds = LastPrice(committed[2], r)

\* task c's upsert_match commits in this step
Committing(c) == tx[c].pc = "run" /\ tx[c].kind = "upsert_match" /\ tx'[c].pc = "ok"

\* C2: upsert_match leaves unchanged every odds row of its match_id whose key is
\* not in the new observation and every row of every other match_id; no step of
\* the store deletes a matches row or an odds row.
C2_NoDeletionOnOmission ==
  [][/\ \A r \in db.matches :
          /\ \E q \in db'.matches : q.match_id = r.match_id
          /\ r \in db'.matches \/
               \E c \in Tasks : Committing(c) /\ tx[c].match.match_id = r.match_id
     /\ \A r \in db.odds :
          /\ \E q \in db'.odds : SameOddsKey(q, r)
          /\ r \in db'.odds \/
               \E c \in Tasks : Committing(c) /\
                  HasKey([match_id |-> tx[c].match.match_id, odds |-> tx[c].match.odds], r)
    ]_vars

\* the last committed call for match 42 had no (1X2, Away) and the row of an
\* earlier observation is still there
C2_Witness ==
  /\ Len(committed) = 2
  /\ committed[2].match_id = s42
  /\ \E r \in db.odds :
       /\ r.match_id = s42 /\ r.selection = sAway
       /\ ~HasKey(committed[2], r)
       /\ r.updated_at = committed[1].now

\* every matches row that can be read is that of a committed call, and all the
\* odds keys of that call can be read with it
AllOrNothingVisible ==
  \A r \in db.matches :
    \E i \in 1..Len(committed) :
      /\ committed[i].match_id = r.match_id
      /\ committed[i].now = r.updated_at
      /\ \A j \in 1..Len(committed[i].odds) :
           \E q \in db.odds :
             /\ q.match_id = r.match_id
             /\ q.market = committed[i].odds[j].market
             /\ q.selection = committed[i].odds[j].selection

\* C3: each store call is one all-or-nothing transaction: a call that fails or
\* is cancelled before its commit leaves the readable database as it was (no
\* matches row, no odds row of it), and no reader sees the matches row of a call
\* without all odds rows of that call.
C3_AllOrNothing ==
  /\ []AllOrNothingVisible
  /\ [][\A c \in Tasks : (tx[c].pc = "run" /\ tx'[c].pc = "raised") => db' = db]_vars
  /\ [][db' # db => \E c \in Tasks : tx[c].pc = "run" /\ tx'[c].pc = "ok"]_vars

\* an upsert_match failed on its second odds row (a price SQLite binds as NULL)
\* after its matches row and first odds row were executed, and nothing of it
\* can be read
C3_Witness ==
  \E c \in Tasks :
    /\ tx[c].pc = "raised" /\ tx[c].kind = "upsert_match" /\ tx[c].cause = "integrity"
    /\ db.matches = {} /\ db.odds = {}

IsPrefix(a, b) == Len(a) <= Len(b) /\ SubSeq(b, 1, Len(a)) = a

\* C4: the audit tables are append-only: every raw_responses, network_events
\* and block_events row that once existed still exists unchanged and no table
\* shrinks; insert_raw never fails on its match_id, be it null or without a
\* matches row.
C4_AuditAppendOnly ==
  /\ [][/\ IsPrefix(db.raw_responses, db'.raw_responses)
        /\ IsPrefix(db.network_events, db'.network_events)
        /\ IsPrefix(db.block_events, db'.block_events)]_vars
  /\ [](\A c \in Tasks :
          (tx[c].kind = "insert_raw" /\ tx[c].pc = "raised") => tx[c].cause = "abort")

\* a raw row with a null match_id and one whose match_id has no matches row
C4_Witness ==
  /\ Len(db.raw_responses) = 2
  /\ \E i \in 1..2 : db.raw_responses[i].match_id = JNone
  /\ \E i \in 1..2 : db.raw_responses[i].match_id = JStr(s42)
  /\ db.matches = {}

(***************************************************************************)
(* parse_match applied again and again to one record while the wall clock  *)
(* runs on                                                                 *)
(***************************************************************************)
MaxDays == 1
MaxApplications == 3

sGarbage == <<"s","o","o","n">>

\* the values of the start key: absent, epoch seconds, epoch milliseconds, a
\* full date, a time of day, an unreadable string
ParseStarts ==
  {JNone, JInt(1714586400), JBig(1714, 586400123), JStr(DateFull), JStr(TimeOnly),
   JStr(sGarbage)}

ParseMarkets5 == JInt(5)
ParseMarketSets == {MarketsOne, MarketsTwo, MarketsNan, ParseMarkets5, EmptyList}

ParseRecord(id, sport, start, markets) ==
  JDict([id |-> id, home |-> JStr(sA), away |-> JStr(sB), sport |-> JStr(sport),
         start |-> start, markets |-> markets])

ParseItems ==
  {ParseRecord(id, sp, st, mk) :
     id \in {JNone, JStr(s42)}, sp \in {sEsport, sTennis}, st \in ParseStarts,
     mk \in ParseMarketSets}
    \cup {JDict([name |-> JStr(sAB), league |-> JStr(sFifa), live |-> JBool(TRUE)]),
          JDict([name |-> JStr(sFoci), sport |-> JStr(sEsport)]),
          JList(<<>>)}

ApplyParseMatch ==
  /\ Len(parsed) < MaxApplications
  /\ parsed' = Append(parsed, parse_match(item, today))
  /\ UNCHANGED <<storeVars, today, pipeVars, item, rotVars, readVars, clsVars, capVars, fetchVars, cycleVars, huntVars>>

\* the wall clock passes midnight
Midnight ==
  /\ today < BaseDay + MaxDays
  /\ today' = today + 1
  /\ UNCHANGED <<storeVars, pipeVars, parseVars, rotVars, readVars, clsVars, capVars, fetchVars, cycleVars, huntVars>>

ParseInit ==
  /\ StoreIdle /\ PipeIdle /\ RotIdle /\ ReadIdle /\ ClsIdle /\ CapIdle /\ FetchIdle /\ CycleIdle /\ HuntIdle
  /\ today = BaseDay
  /\ item \in ParseItems
  /\ parsed = <<>>

ParseNext == ApplyParseMatch \/ Midnight

SpecParse == ParseInit /\ [][ParseNext]_vars

\* the fields of a Match other than raw
MatchValues(m) ==
  <<m.match_id, m.sport, m.tournament, m.home_team, m.away_team, m.start_time, m.is_live,
    m.odds>>

SameMatch(a, b) ==
  IF a = NoMatch \/ b = NoMatch THEN a = b ELSE MatchValues(a) = MatchValues(b)

\* C5: parse_match is deterministic: two applications to the same record give
\* rejection both times or two Matches with the same match_id, sport,
\* tournament, home_team, away_team, start_time, is_live and odds.
C5_Deterministic ==
  \A i, j \in 1..Len(parsed) : SameMatch(parsed[i], parsed[j])

\* what does hold: the applications agree on everything but start_time, and on
\* start_time too unless the record's start is a time of day
C5_DeterministicButStart ==
  \A i, j \in 1..Len(parsed) :
    IF parsed[i] = NoMatch \/ parsed[j] = NoMatch THEN parsed[i] = parsed[j]
    ELSE /\ [parsed[i] EXCEPT !.start_time = JNone] = [parsed[j] EXCEPT !.start_time = JNone]
         /\ Get(item, "start") # JStr(TimeOnly) => parsed[i].start_time = parsed[j].start_time

\* a record whose start is a time of day, parsed before and after midnight
C5_Witness ==
  /\ Len(parsed) >= 2
  /\ parsed[1] # NoMatch
  /\ Get(item, "start") = JStr(TimeOnly)
  /\ parsed[1].start_time # parsed[Len(parsed)].start_time

(***************************************************************************)
(* scraper.py: a JSON response on its way to the store.  _handle_response  *)
(* (path "web") runs as one task per browser response, poll_api_once (path *)
(* "api") in the poller; each awaits the store calls it makes.             *)
(***************************************************************************)
\* the responses handled in one run
MaxPayloads == 1

ContainerKeys == <<"events", "matches", "data", "items", "list", "fixtures">>

\* candidates.extend(v for v in val if isinstance(v, dict)) over the container keys
RECURSIVE ExtendCandidates(_, _, _)
ExtendCandidates(payload, keys, candidates) ==
  IF Len(keys) = 0 THEN candidates
  ELSE ExtendCandidates(payload, Tail(keys),
         IF IsList(Get(payload, Head(keys)))
         THEN candidates \o SelectSeq(Get(payload, Head(keys)).l, IsDict)
         ELSE candidates)

\* a variant: the payload itself is always the only candidate
CandidatesRootOnly(payload) == <<payload>>

\* lines 110-118 of process_payload
\* if not candidates: candidates = [payload]
OrPayload(candidates, payload) == IF Len(candidates) = 0 THEN <<payload>> ELSE candidates

Candidates(payload) == OrPayload(ExtendCandidates(payload, ContainerKeys, <<>>), payload)

\* the handler is between two calls
PipeFree(c) == pp[c].pc \in {"idle", "done", "failed", "poller_caught"} /\ tx[c].pc # "run"

\* the handler goes on without a store call
NoCall == [pc |-> "none"]

\* an exception inside the handler: _handle_response catches and logs it,
\* poll_api_once records an api_error network event
Fail(p, cause) ==
  IF p.path = "web"
  THEN [p |-> [p EXCEPT !.pc = "failed", !.cause = cause], call |-> NoCall]
  ELSE [p |-> [p EXCEPT !.pc = "api_error", !.cause = cause],
        call |-> insert_network_event("api_error", "/api", JNone, JStr(cause))]

RECURSIVE ForCandidates(_, _)

\* lines 121-124 for candidate i, match being what parse_match returned
ForCandidate(p, i, match) ==
  IF IsRaised(match) THEN Fail([p EXCEPT !.i = i], "parse_match")
  ELSE IF match = NoMatch THEN ForCandidates(p, i + 1)
  ELSE [p |-> [p EXCEPT !.pc = "upsert", !.i = i, !.match = match],
        call |-> upsert_match(match, clock)]

\* process_payload, lines 120-127, from candidate i on up to its next await:
\* rejected candidates are skipped, the first Match goes to upsert_match
ForCandidates(p, i) ==
  IF i > Len(p.cands)
  THEN [p |-> [p EXCEPT !.pc = "done", !.i = i, !.match = NoMatch], call |-> NoCall]
  ELSE ForCandidate(p, i, parse_match(p.cands[i], today))

\* process_payload up to its first await: payload.get on a JSON array raises
process_payload(p) ==
  IF ~IsDict(p.payload) THEN Fail(p, "payload.get")
  ELSE ForCandidates([p EXCEPT !.cands = Candidates(p.payload), !.inserted = 0], 1)

\* task c runs on to the outcome r
RunTo(c, r) ==
  /\ pp' = [pp EXCEPT ![c] = r.p]
  /\ tx' = IF r.call = NoCall THEN tx ELSE [tx EXCEPT ![c] = r.call]

\* the words the handlers look for, and the texts they write as evidence
sMarker == <<"i","p","-","b","l","o","k","k">>
sTextHtml == <<"t","e","x","t","/","h","t","m","l">>
sJsonWord == <<"j","s","o","n">>
sRedirectColon == <<"r","e","d","i","r","e","c","t",":">>
sCtypeColon == <<"c","t","y","p","e",":">>
RedirectStatuses == {301, 302, 303, 307, 308}

\* an observed response: its status, the Location header (of the response
\* itself in the browser, of the first redirect of resp.history that has one
\* in the poller), its content type and its body
Response(status, location, ctype, payload) ==
  [status |-> status, location |-> location, ctype |-> ctype, payload |-> payload]

\* _handle_response from extract_json_from_response on: no body for a
\* content type without "json", nothing to do for a falsy body
WebPayload(p) ==
  IF Contains(Lower(p.ctype), sJsonWord) /\ Truthy(p.payload) THEN process_payload(p)
  ELSE [p |-> [p EXCEPT !.pc = "done"], call |-> NoCall]

\* a variant: only the status 302 is looked at
WebBlockCheck302Only(p) ==
  IF p.status = 302 /\ Truthy(p.location) /\ Contains(p.location.s, sMarker)
  THEN [p |-> [p EXCEPT !.pc = "block"],
        call |-> insert_block_event("web", "/api", JInt(p.status), "geo_ip_block",
                                    sRedirectColon \o p.location.s)]
  ELSE WebPayload(p)

\* _handle_response, lines 239-256: a redirect status and a Location that
\* holds the marker give a geo_ip_block event with the target as evidence
WebBlockCheck(p) ==
  IF p.status \in RedirectStatuses /\ Truthy(p.location) /\ Contains(p.location.s, sMarker)
  THEN [p |-> [p EXCEPT !.pc = "block"],
        call |-> insert_block_event("web", "/api", JInt(p.status), "geo_ip_block",
                                    sRedirectColon \o p.location.s)]
  ELSE WebPayload(p)

\* poll_api_once, lines 417-422: a JSON content type has the whole body
\* stored with no match_id, then processed
ApiPayload(p) ==
  IF Contains(p.ctype, sJsonWord)
  THEN [p |-> [p EXCEPT !.pc = "raw_all"], call |-> insert_raw(JNone, p.payload)]
  ELSE [p |-> [p EXCEPT !.pc = "done"], call |-> NoCall]

\* redirected_to or ""
RedirectedTo(p) == IF Truthy(p.location) THEN p.location.s ELSE <<>>

\* a variant: the content-type rule is looked at before the redirect rule
ApiBlockTypeHtmlFirst(p) ==
  IF Contains(p.ctype, sTextHtml) THEN "html_block" ELSE "geo_ip_block"

\* "geo_ip_block" if "ip-blokk" in (redirected_to or "") else "html_block"
ApiBlockType(p) ==
  IF Contains(RedirectedTo(p), sMarker) THEN "geo_ip_block" ELSE "html_block"

\* f"redirect:{redirected_to}" if redirected_to else f"ctype:{ctype}"
ApiEvidence(p) ==
  IF Truthy(p.location) THEN sRedirectColon \o p.location.s ELSE sCtypeColon \o p.ctype

\* poll_api_once, lines 394-416: one block event for a response that was
\* redirected to the marker or has an HTML content type
ApiBlockCheck(p) ==
  IF Contains(RedirectedTo(p), sMarker) \/ Contains(p.ctype, sTextHtml)
  THEN [p |-> [p EXCEPT !.pc = "block"],
        call |-> insert_block_event("api", "/api", JInt(p.status), ApiBlockType(p),
                                    ApiEvidence(p))]
  ELSE ApiPayload(p)

\* _handle_response up to its insert_network_event
HandleResponse(c, resp) ==
  /\ PipeFree(c)
  /\ ncalls < MaxPayloads
  /\ ncalls' = ncalls + 1
  /\ pp' = [pp EXCEPT ![c] = [IdlePp EXCEPT !.pc = "net", !.path = "web",
                                            !.payload = resp.payload, !.status = resp.status,
                                            !.location = resp.location, !.ctype = resp.ctype]]
  /\ tx' = [tx EXCEPT ![c] = insert_network_event("response", "/api", JInt(resp.status), JNone)]
  /\ UNCHANGED <<db, lock, work, clock, committed, today, parseVars, rotVars, readVars, clsVars, capVars, fetchVars, cycleVars, huntVars>>

\* resp.history of a response: the Location headers of the redirects that
\* were followed, in the order they were followed (None for a redirect
\* without the header)
HistoryOf(resp) == IF "history" \in DOMAIN resp THEN resp.history ELSE <<>>

\* lines 395-403: redirected_to is the Location of the first redirect of
\* resp.history that has one
FirstLocation(history) ==
  LET idx == {i \in 1..Len(history) : Truthy(history[i])}
  IN IF idx = {} THEN JNone ELSE history[CHOOSE i \in idx : \A j \in idx : i <= j]

RedirectTarget(resp) ==
  IF "history" \in DOMAIN resp THEN FirstLocation(resp.history) ELSE resp.location

\* poll_api_once for one endpoint up to its insert_network_event;
\* ctype = (resp.headers.get("content-type") or "").lower()
PollApiOnce(c, resp) ==
  /\ PipeFree(c)
  /\ ncalls < MaxPayloads
  /\ ncalls' = ncalls + 1
  /\ pp' = [pp EXCEPT ![c] = [IdlePp EXCEPT !.pc = "net", !.path = "api",
                                            !.payload = resp.payload, !.status = resp.status,
                                            !.location = RedirectTarget(resp),
                                            !.history = HistoryOf(resp),
                                            !.ctype = Lower(resp.ctype)]]
  /\ tx' = [tx EXCEPT ![c] = insert_network_event("api_response", "/api", JInt(resp.status), JNone)]
  /\ UNCHANGED <<db, lock, work, clock, committed, today, parseVars, rotVars, readVars, clsVars, capVars, fetchVars, cycleVars, huntVars>>

\* after the network event: the block detection of the path
AfterNetworkEvent(c) ==
  /\ pp[c].pc = "net"
  /\ tx[c].pc \in {"ok", "raised"}
  /\ RunTo(c, IF tx[c].pc = "raised" THEN Fail(pp[c], "insert_network_event")
              ELSE IF pp[c].path = "web" THEN WebBlockCheck(pp[c])
              ELSE ApiBlockCheck(pp[c]))
  /\ UNCHANGED <<db, lock, work, clock, committed, ncalls, today, parseVars, rotVars, readVars, clsVars, capVars, fetchVars, cycleVars, huntVars>>

\* after the block event: on to the body of the response
AfterBlockEvent(c) ==
  /\ pp[c].pc = "block"
  /\ tx[c].pc \in {"ok", "raised"}
  /\ RunTo(c, IF tx[c].pc = "raised" THEN Fail(pp[c], "insert_block_event")
              ELSE IF pp[c].path = "web" THEN WebPayload(pp[c])
              ELSE ApiPayload(pp[c]))
  /\ UNCHANGED <<db, lock, work, clock, committed, ncalls, today, parseVars, rotVars, readVars, clsVars, capVars, fetchVars, cycleVars, huntVars>>

\* poll_api_once after insert_raw(db_path, None, data): process_payload
AfterRawAll(c) ==
  /\ pp[c].pc = "raw_all"
  /\ tx[c].pc \in {"ok", "raised"}
  /\ RunTo(c, IF tx[c].pc = "raised" THEN Fail(pp[c], "insert_raw")
              ELSE process_payload(pp[c]))
  /\ UNCHANGED <<db, lock, work, clock, committed, ncalls, today, parseVars, rotVars, readVars, clsVars, capVars, fetchVars, cycleVars, huntVars>>

\* process_payload, line 125: after upsert_match, insert_raw of the candidate
AfterUpsert(c) ==
  /\ pp[c].pc = "upsert"
  /\ tx[c].pc \in {"ok", "raised"}
  /\ RunTo(c, IF tx[c].pc = "raised" THEN Fail(pp[c], "upsert_match")
              ELSE [p |-> [pp[c] EXCEPT !.pc = "raw"],
                    call |-> insert_raw(JStr(pp[c].match.match_id), pp[c].cands[pp[c].i])])
  /\ UNCHANGED <<db, lock, work, clock, committed, ncalls, today, parseVars, rotVars, readVars, clsVars, capVars, fetchVars, cycleVars, huntVars>>

\* process_payload, line 126: inserted += 1, on to the next candidates
AfterRaw(c) ==
  /\ pp[c].pc = "raw"
  /\ tx[c].pc \in {"ok", "raised"}
  /\ RunTo(c, IF tx[c].pc = "raised" THEN Fail(pp[c], "insert_raw")
              ELSE ForCandidates([pp[c] EXCEPT !.inserted = pp[c].inserted + 1],
                                 pp[c].i + 1))
  /\ UNCHANGED <<db, lock, work, clock, committed, ncalls, today, parseVars, rotVars, readVars, clsVars, capVars, fetchVars, cycleVars, huntVars>>

\* poll_api_once after the api_error network event: on to the next endpoint
\* (the exception has no `response`, so lines 437-453 add nothing); when
\* this insert raises too, the exception leaves poll_api_once and
\* run_api_poller catches and logs it (lines 475-476)
AfterApiError(c) ==
  /\ pp[c].pc = "api_error"
  /\ tx[c].pc \in {"ok", "raised"}
  /\ pp' = [pp EXCEPT ![c].pc = IF tx[c].pc = "ok" THEN "failed" ELSE "poller_caught"]
  /\ UNCHANGED <<storeVars, today, parseVars, rotVars, readVars, clsVars, capVars, fetchVars, cycleVars, huntVars>>

\* the bodies the checked runs receive
TennisItem ==
  JDict([id |-> JStr(s7), home |-> JStr(sA), away |-> JStr(sB), sport |-> JStr(sTennis),
         markets |-> MarketsAway])
TennisFociItem ==
  JDict([id |-> JStr(s99), home |-> JStr(sA), away |-> JStr(sB), sport |-> JStr(sTennis),
         name |-> JStr(sFoci), markets |-> MarketsAway])
PayloadOne == JDict([events |-> JList(<<EsportItem(s42, MarketsOne)>>)])
PayloadTennis == JDict([events |-> JList(<<TennisItem>>)])
PayloadTennisFoci == JDict([events |-> JList(<<TennisFociItem>>)])
PayloadMixed ==
  JDict([matches |-> JList(<<EsportItem(s99, JInt(5)), JInt(5), TennisItem>>),
         data |-> JList(<<JDict([home |-> EmptyList, away |-> JStr(sB)]),
                          EsportItem(s7, MarketsAway)>>)])
PayloadSingle == EsportItem(s99, MarketsOneB)
PayloadNan == JDict([items |-> JList(<<EsportItem(s42, MarketsNan), EsportItem(s7, MarketsAway)>>)])
PayloadArray == JList(<<EsportItem(s42, MarketsOne)>>)
Payloads ==
  {PayloadOne, PayloadTennis, PayloadTennisFoci, PayloadMixed, PayloadSingle, PayloadNan,
   PayloadArray, EmptyDict}

\* a response with status 200 and the JSON body payload
sAppJson == <<"a","p","p","l","i","c","a","t","i","o","n","/","j","s","o","n">>
JsonResponse(payload) == Response(200, JNone, sAppJson, payload)

\* the task of run_api_poller; the other tasks handle browser responses
Poller == 1

PipeInit == StoreIdle /\ today = BaseDay /\ PipeIdle /\ ParseIdle /\ RotIdle /\ ReadIdle /\ ClsIdle /\ CapIdle /\ FetchIdle /\ CycleIdle /\ HuntIdle

PipeNext ==
  \/ \E c \in Tasks \ {Poller}, payload \in Payloads : HandleResponse(c, JsonResponse(payload))
  \/ \E payload \in Payloads : PollApiOnce(Poller, JsonResponse(payload))
  \/ \E c \in Tasks : AfterNetworkEvent(c)
  \/ \E c \in Tasks : AfterRawAll(c)
  \/ \E c \in Tasks : AfterUpsert(c)
  \/ \E c \in Tasks : AfterRaw(c)
  \/ \E c \in Tasks : AfterApiError(c)
  \/ \E c \in Tasks : StoreExecute(c)
  \/ \E c \in Tasks : StoreCommit(c)
  \/ \E c \in Tasks : StoreAbort(c)

SpecPipeline == PipeInit /\ [][PipeNext]_vars


(***************************************************************************)
(* The pipeline's contract                                                 *)
(***************************************************************************)
\* task c handles the only response of the run so far
OnlyPayload(c) == ncalls = 1 /\ pp[c].pc # "idle"

\* the keys is_esport_football reads
ScannedKeys == {"sport", "sportName", "league", "tournament", "name"}

NoKeywordInAnyField(it) ==
  \A k \in ScannedKeys : IsStr(Get(it, k)) => ~HasKeyword(Lower(Get(it, k).s))

\* every candidate of the payload has sport "Tennis" and no esport keyword in
\* any scanned field
TennisOnly(payload) ==
  /\ IsDict(payload)
  /\ \A i \in 1..Len(Candidates(payload)) :
       /\ Get(Candidates(payload)[i], "sport") = JStr(sTennis)
       /\ NoKeywordInAnyField(Candidates(payload)[i])

\* the part of C6 about the filter of the code: a payload stores at most one
\* match per candidate, each from a candidate is_esport_football accepts
C6_StoredPassFilter ==
  \A c \in Tasks : OnlyPayload(c) =>
    /\ Cardinality(db.matches) <= Len(pp[c].cands)
    /\ pp[c].inserted <= Len(pp[c].cands)
    /\ \A r \in db.matches :
         \E i \in 1..Len(pp[c].cands) :
           /\ is_esport_football(pp[c].cands[i])
           /\ parse_match(pp[c].cands[i], today) # NoMatch
           /\ parse_match(pp[c].cands[i], today).match_id = r.match_id

\* C6: process_payload stores at most one match per candidate, every stored
\* match comes from a candidate that passes is_esport_football, and a payload
\* whose candidates all have sport "Tennis" and no esport keyword in any
\* scanned field stores zero matches and zero odds rows.
C6_TennisStoresNothing ==
  /\ C6_StoredPassFilter
  /\ \A c \in Tasks :
       (OnlyPayload(c) /\ TennisOnly(pp[c].payload)) => (db.matches = {} /\ db.odds = {})

\* a Tennis payload without any keyword has been processed and nothing stored
C6_Witness ==
  \E c \in Tasks :
    /\ OnlyPayload(c) /\ pp[c].pc = "done" /\ pp[c].payload = PayloadTennis
    /\ db.matches = {} /\ db.odds = {}

\* the payload has a recognized container whose only record has an explicit
\* id and gives a Match with one market, one selection and a numeric price
SingleRecordPayload(payload) ==
  /\ IsDict(payload)
  /\ LET found == ExtendCandidates(payload, ContainerKeys, <<>>)
     IN /\ Len(found) = 1
        /\ IsStr(Get(found[1], "id"))
        /\ ParseMatchBody(found[1], today).t = "match"
        /\ Len(ParseMatchBody(found[1], today).odds) = 1
        /\ ParseMatchBody(found[1], today).odds[1].odds.k = "fin"

\* C7: processing once a payload whose container holds a single acceptable
\* record with an explicit id, one market and one selection with a numeric
\* price results in exactly one matches row with that id, exactly one odds row
\* (match_id, market, selection, price) and exactly one raw_responses row whose
\* match_id is that id.
C7_SingleRecordRows ==
  \A c \in Tasks :
    (OnlyPayload(c) /\ pp[c].pc = "done" /\ SingleRecordPayload(pp[c].payload)) =>
      LET it == ExtendCandidates(pp[c].payload, ContainerKeys, <<>>)[1]
          m == ParseMatchBody(it, today)
      IN /\ Cardinality(db.matches) = 1
         /\ \A r \in db.matches : r.match_id = Get(it, "id").s
         /\ Cardinality(db.odds) = 1
         /\ \A r \in db.odds :
              /\ r.match_id = Get(it, "id").s
              /\ r.market = m.odds[1].market
              /\ r.selection = m.odds[1].selection
              /\ r.odds = m.odds[1].odds
         /\ Cardinality({i \in 1..Len(db.raw_responses) :
                           db.raw_responses[i].match_id = Get(it, "id")}) = 1

\* the poller has processed {"events": [record 42]}: the rows (42), (42, 1X2,
\* Home, 1.85), a raw row of the whole body and the raw row of match 42
C7_Witness ==
  \E c \in Tasks :
    /\ OnlyPayload(c) /\ pp[c].pc = "done" /\ pp[c].path = "api"
    /\ pp[c].payload = PayloadOne
    /\ \E r \in db.odds :
         r.match_id = s42 /\ r.market = s1X2 /\ r.selection = sHome /\ r.odds = JFloat(185)
    /\ Len(db.raw_responses) = 2

\* what can end a handler early: a failed store call, or a body that is a JSON array
StoreCauses ==
  {"insert_network_event", "insert_block_event", "insert_raw", "upsert_match", "payload.get"}

\* C8: parse_match never raises, whatever keys are missing or wrongly typed:
\* it returns a Match or None, and in process_payload the rejection of one
\* candidate does not keep the remaining candidates from being extracted and
\* stored.
C8_RejectionIsLocal ==
  \A c \in Tasks :
    /\ \A i \in 1..Len(pp[c].cands) : parse_match(pp[c].cands[i], today).t \in {"match", "nomatch"}
    /\ pp[c].pc \in {"failed", "api_error", "poller_caught"} => pp[c].cause \in StoreCauses
    /\ pp[c].pc = "done" =>
         \A i \in 1..Len(pp[c].cands) :
           ParseMatchBody(pp[c].cands[i], today).t = "match" =>
             /\ \E r \in db.matches :
                  r.match_id = ParseMatchBody(pp[c].cands[i], today).match_id
             /\ \E j \in 1..Len(db.raw_responses) :
                  db.raw_responses[j].payload = JsonDumps(pp[c].cands[i])

\* a payload whose first candidates are rejected, one of them by an exception
\* inside parse_match, and whose last candidate is stored
C8_Witness ==
  \E c \in Tasks :
    /\ OnlyPayload(c) /\ pp[c].pc = "done" /\ pp[c].payload = PayloadMixed
    /\ IsRaised(ParseMatchBody(pp[c].cands[1], today))
    /\ parse_match(pp[c].cands[2], today) = NoMatch
    /\ pp[c].inserted = 1
    /\ \E r \in db.matches : r.match_id = s7


(***************************************************************************)
(* blocker.py, mitigator.py, config.py: the Mitigation Engine.  env is the *)
(* candidate list fetch_candidates returns; each candidate carries what    *)
(* the who-am-I endpoint and the Tippmix test endpoint answer through it.  *)
(***************************************************************************)
\* the length of the candidate list
MaxPool == 4
\* the width of a batch of concurrent probes (30 in rotate_proxy)
BatchSize == 2

sGeo == <<"g","e","o","_","i","p","_","b","l","o","c","k">>
sGeoUpper == <<"G","E","O","_","I","P","_","B","L","O","C","K">>
sCaptcha == <<"c","a","p","t","c","h","a">>
sRateLimit == <<"r","a","t","e","_","l","i","m","i","t">>
sHtmlBlock == <<"h","t","m","l","_","b","l","o","c","k">>
sHU == <<"H","U">>
sHuLower == <<"h","u">>
sDE == <<"D","E">>
sWaf == <<"w","a","f">>

\* (block_type or "").lower(), block_type being a str or None
BlockTypeText(block_type) == IF Truthy(block_type) THEN Lower(block_type.s) ELSE <<>>

\* a variant: the strategies of captcha and rate_limit change places
ChooseMitigationSwapped(block_type) ==
  LET t == BlockTypeText(block_type)
  IN IF t = sGeo THEN "rotate_proxy_or_hu_exit"
     ELSE IF t = sCaptcha THEN "backoff_and_randomize"
     ELSE IF t = sRateLimit THEN "stealth_and_retry_with_human_mouse"
     ELSE IF t = sHtmlBlock THEN "force_proxy_and_web_context"
     ELSE "generic_retry"

\* a variant: html_block rotates the proxy too
ChooseMitigationHtmlRotates(block_type) ==
  LET t == BlockTypeText(block_type)
  IN IF t \in {sGeo, sHtmlBlock} THEN "rotate_proxy_or_hu_exit"
     ELSE IF t = sCaptcha THEN "stealth_and_retry_with_human_mouse"
     ELSE IF t = sRateLimit THEN "backoff_and_randomize"
     ELSE "generic_retry"

choose_mitigation(block_type) ==
  LET t == BlockTypeText(block_type)
  IN IF t = sGeo THEN "rotate_proxy_or_hu_exit"
     ELSE IF t = sCaptcha THEN "stealth_and_retry_with_human_mouse"
     ELSE IF t = sRateLimit THEN "backoff_and_randomize"
     ELSE IF t = sHtmlBlock THEN "force_proxy_and_web_context"
     ELSE "generic_retry"

\* what a candidate answers: the who-am-I status and body (NotJson for a body
\* r.json() cannot read) and whether the Tippmix test endpoint serves JSON
NotJson == [t |-> "notjson"]
Whoami(cc) == [status |-> 200, body |-> JDict([cc |-> JStr(cc)])]
CandidateKinds ==
  {[whoami |-> Whoami(sHU), tippmix |-> TRUE],
   [whoami |-> Whoami(sHuLower), tippmix |-> FALSE],
   [whoami |-> Whoami(sDE), tippmix |-> TRUE],
   [whoami |-> [status |-> 200, body |-> NotJson], tippmix |-> FALSE]}

\* the candidates' URLs, distinct after the deduplication of fetch_candidates
Urls == <<"p1", "p2", "p3", "p4", "p5", "p6">>

\* is_hu(proxy): status 200, a JSON object, (data.get("cc") or "").upper() == "HU";
\* every exception is False
is_hu(cand) ==
  IF cand.whoami.status # 200 THEN FALSE
  ELSE IF cand.whoami.body = NotJson THEN FALSE
  ELSE IF ~IsDict(cand.whoami.body) THEN FALSE
  ELSE LET cc == OrChain(<<Get(cand.whoami.body, "cc"), JStr(<<>>)>>)
       IN IsStr(cc) /\ Upper(cc.s) = sHU

\* get_proxy_from_env without the environment overrides: the Active Proxy State
ReadActive(file) == IF file.exists /\ file.text # "" THEN file.text ELSE RetNone

\* a variant: all the candidates from lo on are probed at once
BatchOfRest(lo) == {i \in 1..Len(env) : lo <= i}

\* cands[i:i+batch], as the indices of the candidates
BatchOf(lo) == {i \in 1..Len(env) : lo <= i /\ i < lo + BatchSize}

\* a variant: the passing candidate whose probe answered first
SelectFirstAnswered(lo, answered) ==
  LET ok == {k \in 1..Len(answered) : answered[k] \in BatchOf(lo) /\ is_hu(env[answered[k]])}
  IN IF ok = {} THEN 0 ELSE answered[CHOOSE k \in ok : \A j \in ok : k <= j]

\* for p, ok in zip(sub, checks): if ok: ... the first passing candidate of the
\* batch in list order, 0 for none
SelectInBatch(lo, answered) ==
  LET ok == {i \in BatchOf(lo) : is_hu(env[i])}
  IN IF ok = {} THEN 0 ELSE CHOOSE i \in ok : \A j \in ok : i <= j

\* open(ACTIVE_PROXY_FILE, "w"): it fails and leaves the file alone, or it
\* creates or truncates the file, which is then empty
OpenOutcomes == {"opened", "open_fails"}
OpenFile(file, outcome) ==
  IF outcome = "opened" THEN [exists |-> TRUE, text |-> ""] ELSE file

\* f.write(p) fills the buffer of f and leaving the `with` block flushes it:
\* the text reaches the file in one write, or the flush fails and the file
\* stays as open() left it
CloseOutcomes == {"written", "write_fails"}
CloseFile(file, p, outcome) ==
  IF outcome = "written" THEN [exists |-> TRUE, text |-> p] ELSE file

\* auto_mitigate(block_type) up to the first await of rotate_proxy's scan
AutoMitigate(block_type) ==
  /\ rot.pc = "idle"
  /\ rot' = IF choose_mitigation(JStr(block_type)) = "rotate_proxy_or_hu_exit" /\ Len(env) > 0
            THEN [rot EXCEPT !.pc = "gather", !.block_type = block_type,
                             !.before = ReadActive(active_proxy)]
            ELSE [rot EXCEPT !.pc = "returned", !.block_type = block_type,
                             !.before = ReadActive(active_proxy), !.ret = RetNone]
  /\ UNCHANGED <<storeVars, today, pipeVars, parseVars, env, active_proxy, readVars, clsVars, capVars, fetchVars, cycleVars, huntVars>>

\* a probe of the current batch starts
StartProbe(i) ==
  /\ rot.pc = "gather"
  /\ i \in BatchOf(rot.lo) \ rot.started
  /\ rot' = [rot EXCEPT !.started = rot.started \cup {i}]
  /\ UNCHANGED <<storeVars, today, pipeVars, parseVars, env, active_proxy, readVars, clsVars, capVars, fetchVars, cycleVars, huntVars>>

\* a started probe answers
FinishProbe(i) ==
  /\ rot.pc = "gather"
  /\ i \in rot.started
  /\ \A k \in 1..Len(rot.answered) : rot.answered[k] # i
  /\ rot' = [rot EXCEPT !.answered = Append(rot.answered, i)]
  /\ UNCHANGED <<storeVars, today, pipeVars, parseVars, env, active_proxy, readVars, clsVars, capVars, fetchVars, cycleVars, huntVars>>

\* asyncio.gather returns: the scan of the batch in list order and the open()
\* of the file for the first passing candidate, or the next batch
EndBatch ==
  /\ rot.pc = "gather"
  /\ \A i \in BatchOf(rot.lo) : \E k \in 1..Len(rot.answered) : rot.answered[k] = i
  /\ LET sel == SelectInBatch(rot.lo, rot.answered)
     IN IF sel # 0
        THEN \E outcome \in OpenOutcomes :
               /\ active_proxy' = OpenFile(active_proxy, outcome)
               /\ rot' = [rot EXCEPT !.pc = IF outcome = "opened" THEN "writing" ELSE "returned",
                                     !.selected = sel, !.ret = RetNone]
        ELSE /\ active_proxy' = active_proxy
             /\ rot' = IF rot.lo + BatchSize > Len(env)
                       THEN [rot EXCEPT !.pc = "returned", !.ret = RetNone]
                       ELSE [rot EXCEPT !.lo = rot.lo + BatchSize]
  /\ UNCHANGED <<storeVars, today, pipeVars, parseVars, env, readVars, clsVars, capVars, fetchVars, cycleVars, huntVars>>

\* f.write(p) and the end of the `with` block: return p, or None when the
\* write raised.  No await lies between open() and here, so nothing of the
\* same event loop runs in between; another process can.
WriteAndClose ==
  /\ rot.pc = "writing"
  /\ \E outcome \in CloseOutcomes :
       /\ active_proxy' = CloseFile(active_proxy, Urls[rot.selected], outcome)
       /\ rot' = [rot EXCEPT !.pc = "returned",
                             !.ret = IF outcome = "written" THEN Urls[rot.selected] ELSE RetNone]
  /\ UNCHANGED <<storeVars, today, pipeVars, parseVars, env, readVars, clsVars, capVars, fetchVars, cycleVars, huntVars>>

BlockTypes == {sGeo, sGeoUpper, sCaptcha, sRateLimit, sHtmlBlock, sWaf}
PrevFile == [exists |-> TRUE, text |-> "prev"]

RotateInit ==
  /\ StoreIdle /\ today = BaseDay /\ PipeIdle /\ ParseIdle /\ ReadIdle /\ ClsIdle /\ CapIdle /\ FetchIdle /\ CycleIdle /\ HuntIdle
  /\ env \in UNION {[1..n -> CandidateKinds] : n \in 0..MaxPool}
  /\ rot = IdleRot
  /\ active_proxy \in {AbsentFile, PrevFile}

RotateNext ==
  \/ \E block_type \in BlockTypes : AutoMitigate(block_type)
  \/ \E i \in 1..Len(Urls) : StartProbe(i)
  \/ \E i \in 1..Len(Urls) : FinishProbe(i)
  \/ EndBatch
  \/ WriteAndClose

SpecRotate == RotateInit /\ [][RotateNext]_vars

(***************************************************************************)
(* The Mitigation Engine's contract                                        *)
(***************************************************************************)
\* the candidate reports the target country and serves valid JSON from the
\* test endpoint
Qualifies(cand) == is_hu(cand) /\ cand.tippmix
Qualifying == {i \in 1..Len(env) : Qualifies(env[i])}
Passing == {i \in 1..Len(env) : is_hu(env[i])}
GeoCallReturned == rot.pc = "returned" /\ Lower(rot.block_type) = sGeo

\* C9: auto_mitigate("geo_ip_block") on a pool in which exactly one proxy
\* reports HU and serves valid JSON from the test endpoint returns that proxy
\* and the Active Proxy State afterwards equals it; on a pool in which no
\* candidate qualifies it returns None and the Active Proxy State equals its
\* value before the call.
C9_ReturnsTheQualifying ==
  GeoCallReturned =>
    /\ Cardinality(Qualifying) = 1 =>
         \A i \in Qualifying : rot.ret = Urls[i] /\ ReadActive(active_proxy) = Urls[i]
    /\ Qualifying = {} => rot.ret = RetNone /\ ReadActive(active_proxy) = rot.before

\* what the code does for C9's pools: the country check alone decides, and the
\* proxy is returned only when the file could be written
C9_CountryAloneDecides ==
  GeoCallReturned =>
    /\ (Passing # {} /\ rot.ret # RetNone) =>
         /\ rot.ret = Urls[CHOOSE i \in Passing : \A j \in Passing : i <= j]
         /\ ReadActive(active_proxy) = rot.ret
    /\ (Passing # {} /\ rot.ret = RetNone) =>
         ReadActive(active_proxy) \in {rot.before, RetNone}
    /\ Passing = {} => rot.ret = RetNone /\ ReadActive(active_proxy) = rot.before

\* the only qualifying proxy comes second, after one that reports HU without
\* serving JSON from the test endpoint, and the call returned the first
C9_Witness ==
  /\ GeoCallReturned
  /\ Qualifying = {2}
  /\ 1 \in Passing
  /\ rot.ret = Urls[1] /\ ReadActive(active_proxy) = Urls[1]

BatchIndex(i) == (i - 1) \div BatchSize
Answered == {rot.answered[k] : k \in 1..Len(rot.answered)}

\* C10: once a candidate of batch k has passed the country check, no probe of
\* a candidate of a later batch is ever started, and the proxy selected is the
\* passing candidate that comes first in list order, not the one whose probe
\* answered first.
C10_StopsAtFirstPassingBatch ==
  /\ \A i \in rot.started : \A j \in Answered :
       is_hu(env[j]) => BatchIndex(i) <= BatchIndex(j)
  /\ rot.selected # 0 =>
       /\ rot.selected \in Passing
       /\ \A j \in Passing : rot.selected <= j
  /\ (rot.pc = "returned" /\ Passing # {} /\ Lower(rot.block_type) = sGeo) => rot.selected # 0

\* two candidates of the first batch pass, the second answered first, the
\* first is selected, and a later batch was never started
C10_Witness ==
  /\ rot.pc = "returned"
  /\ rot.selected = 1
  /\ Len(env) > BatchSize
  /\ Len(rot.answered) > 0
  /\ is_hu(env[2]) /\ rot.answered[1] = 2
  /\ \A i \in rot.started : BatchIndex(i) = 0


(***************************************************************************)
(* config.py: the readers of the Active Proxy State.  launch_browser and   *)
(* run_api_poller call get_proxy_from_env when they construct a browser or *)
(* a client; the call never awaits, so in the process that rotates it runs *)
(* outside the open()/close() of rotate_proxy, and in another process at   *)
(* any time.  The texts of the model carry no white space, so strip()      *)
(* leaves them as they are.                                                *)
(***************************************************************************)
\* the size of the candidate list while readers run beside the rotation
MaxFilePool == 1

\* a or b over two os.getenv results: the first that is neither None nor ""
EnvOr(a, b) == IF a \notin {Unset, ""} THEN a ELSE b

\* a variant: HTTPS_PROXY, then HTTP_PROXY, then PROXY_URL
ProxyFromEnvHttpsFirst(environ, file, readable) ==
  LET val == EnvOr(environ.HTTPS_PROXY, EnvOr(environ.HTTP_PROXY, environ.PROXY_URL))
  IN IF val \notin {Unset, ""} THEN val
     ELSE IF file.exists /\ readable THEN ReadActive(file) ELSE RetNone

\* get_proxy_from_env(): the first override that is set and not empty, else
\* the text of the file, None for no file, an open() or read() that raises
\* (readable = FALSE) or an empty text
get_proxy_from_env(environ, file, readable) ==
  LET val == EnvOr(environ.PROXY_URL, EnvOr(environ.HTTPS_PROXY, environ.HTTP_PROXY))
  IN IF val \notin {Unset, ""} THEN val
     ELSE IF file.exists /\ readable THEN ReadActive(file) ELSE RetNone

\* the environments a reader may run in
EnvSamples ==
  [PROXY_URL : {Unset, "", "o1"}, HTTPS_PROXY : {Unset, "", "o2"}, HTTP_PROXY : {Unset, "", "o3"}]

\* reader r calls get_proxy_from_env; `at` keeps where the rotation was
GetProxy(r, readable) ==
  /\ r = "same" => rot.pc # "writing"
  /\ rd' = [rd EXCEPT ![r] = [ret |-> get_proxy_from_env(osenv[r], active_proxy, readable),
                              at |-> rot.pc, readable |-> readable,
                              state |-> active_proxy]]
  /\ UNCHANGED <<storeVars, today, pipeVars, parseVars, rotVars, osenv, clsVars, capVars, fetchVars, cycleVars, huntVars>>

FilePoolKinds == {[whoami |-> Whoami(sHU), tippmix |-> TRUE], [whoami |-> Whoami(sDE), tippmix |-> TRUE]}

ProxyFileInit ==
  /\ StoreIdle /\ today = BaseDay /\ PipeIdle /\ ParseIdle
  /\ env \in UNION {[1..n -> FilePoolKinds] : n \in 0..MaxFilePool}
  /\ rot = IdleRot
  /\ active_proxy \in {AbsentFile, PrevFile}
  /\ osenv \in {[r \in Readers |-> IF r = "same" THEN e ELSE NoOverride] : e \in EnvSamples}
  /\ rd = [r \in Readers |-> IdleRd]
  /\ ClsIdle /\ CapIdle /\ FetchIdle /\ CycleIdle /\ HuntIdle

ProxyFileNext ==
  \/ AutoMitigate(sGeo)
  \/ \E i \in 1..Len(Urls) : StartProbe(i)
  \/ \E i \in 1..Len(Urls) : FinishProbe(i)
  \/ EndBatch
  \/ WriteAndClose
  \/ \E r \in Readers, readable \in BOOLEAN : GetProxy(r, readable)

SpecProxyFile == ProxyFileInit /\ [][ProxyFileNext]_vars

\* the call of reader r ran without override on a readable file while or
\* after rotate_proxy ran
ReadBesideRotation(r) ==
  /\ rd[r].at \in {"gather", "writing", "returned"}
  /\ osenv[r] = NoOverride
  /\ rd[r].readable

\* the value before the rotation and, once a candidate is selected, the new one
OldOrNew == {rot.before} \cup (IF rot.selected # 0 THEN {Urls[rot.selected]} ELSE {})

\* C11: under every interleaving of a rotate_proxy write with
\* get_proxy_from_env reads, in the same process or in another, a reader
\* obtains the complete previous proxy value or the complete new one, never
\* an empty, truncated or partially written value.
C11_OldOrNewNeverEmpty ==
  \A r \in Readers : ReadBesideRotation(r) => rd[r].ret \in OldOrNew

\* what the code gives: a reader of the rotating process reads the previous
\* or the new value unless the write itself failed; a reader of another
\* process reads None too while the file is open for writing
C11_AtomicInOneProcessOnly ==
  /\ ReadBesideRotation("same") =>
       rd["same"].ret \in OldOrNew \cup (IF rot.pc = "returned" /\ rot.selected # 0 /\ rot.ret = RetNone
                                       THEN {RetNone} ELSE {})
  /\ ReadBesideRotation("other") => rd["other"].ret \in OldOrNew \cup {RetNone}

\* the file held "prev", rotate_proxy has opened it to write p1, and the
\* reader of the other process got None
C11_Witness ==
  /\ rd["other"].at = "writing" /\ ReadBesideRotation("other")
  /\ rot.before = "prev" /\ rot.selected = 1
  /\ rd["other"].ret = RetNone


(***************************************************************************)
(* The block detection of the capture sources: the responses a blocking    *)
(* target sends, handled over the same store.                              *)
(***************************************************************************)
sLocBlock == <<"/","i","p","-","b","l","o","k","k",".","h","t","m","l">>
sLocHome == <<"/","h","o","m","e">>
sHtmlUtf8 == <<"T","e","x","t","/","H","T","M","L",";"," ","c","h","a","r","s","e","t","=","U","T","F","-","8">>
sTextPlain == <<"t","e","x","t","/","p","l","a","i","n">>

\* what the browser sees: every redirect status with the marker, a redirect
\* elsewhere, a redirect without Location, other statuses with the marker,
\* and a JSON body
WebResponses ==
  {Response(st, JStr(sLocBlock), sTextHtml, JNone) : st \in RedirectStatuses \cup {200, 304}}
    \cup {Response(302, JStr(sLocHome), sTextHtml, JNone),
          Response(302, JNone, sTextHtml, JNone),
          JsonResponse(PayloadOne)}

\* what the poller gets after following redirects: both signals, each
\* alone, none
ApiResponses ==
  {Response(200, JStr(sLocBlock), sHtmlUtf8, JNone),
   Response(200, JStr(sLocBlock), sAppJson, PayloadOne),
   Response(200, JNone, sTextHtml, JNone),
   Response(200, JStr(sLocHome), sHtmlUtf8, JNone),
   Response(200, JStr(sLocHome), sTextPlain, JNone),
   JsonResponse(PayloadOne)}

BlockInit == PipeInit

BlockNext ==
  \/ \E c \in Tasks \ {Poller}, resp \in WebResponses : HandleResponse(c, resp)
  \/ \E resp \in ApiResponses : PollApiOnce(Poller, resp)
  \/ \E c \in Tasks : AfterNetworkEvent(c)
  \/ \E c \in Tasks : AfterBlockEvent(c)
  \/ \E c \in Tasks : AfterRawAll(c)
  \/ \E c \in Tasks : AfterUpsert(c)
  \/ \E c \in Tasks : AfterRaw(c)
  \/ \E c \in Tasks : AfterApiError(c)
  \/ \E c \in Tasks : StoreExecute(c)
  \/ \E c \in Tasks : StoreCommit(c)
  \/ \E c \in Tasks : StoreAbort(c)

SpecBlock == BlockInit /\ [][BlockNext]_vars

\* the block events committed so far
BlockRows == {db.block_events[i] : i \in 1..Len(db.block_events)}

\* the response of task c shows both signals: an HTML content type and a
\* redirect to the marker
BothSignals(c) ==
  /\ pp[c].path = "api"
  /\ Contains(pp[c].ctype, sTextHtml)
  /\ Truthy(pp[c].location) /\ Contains(RedirectedTo(pp[c]), sMarker)

MarkerRedirect(c) ==
  /\ pp[c].path = "web"
  /\ pp[c].status \in {301, 302, 303, 307, 308}
  /\ IsStr(pp[c].location) /\ Contains(pp[c].location.s, sMarker)

\* C15: every response observed by Browser Capture with a redirect status
\* (301, 302, 303, 307, 308) whose Location header contains the block marker
\* "ip-blokk" results in one persisted block_events row with source web,
\* block_type geo_ip_block and evidence containing the redirect target.
C15_RedirectGivesBlockEvent ==
  \A c \in Tasks :
    (OnlyPayload(c) /\ MarkerRedirect(c) /\ pp[c].pc = "done") =>
      /\ Len(db.block_events) = 1
      /\ \A r \in BlockRows :
           /\ r.source = "web"
           /\ r.block_type = "geo_ip_block"
           /\ r.status = JInt(pp[c].status)
           /\ Contains(r.evidence, pp[c].location.s)

\* a 308 to /ip-blokk.html has been handled: the row is there
C15_Witness ==
  \E c \in Tasks :
    /\ OnlyPayload(c) /\ MarkerRedirect(c) /\ pp[c].pc = "done"
    /\ pp[c].status = 308
    /\ Len(db.block_events) = 1
    /\ db.block_events[1].evidence = sRedirectColon \o sLocBlock


\* the store calls of a capture cycle
PersistenceCauses == {"upsert_match", "insert_raw", "insert_network_event", "insert_block_event"}

\* C18: a persistence failure (the store raising on upsert_match, insert_raw,
\* insert_network_event or insert_block_event) inside a capture cycle is
\* never swallowed: no handler of the browser and no poll of the API ends
\* with the exception caught and logged on its way to the supervisor.
C18_StoreFailureNotSwallowed ==
  \A c \in Tasks :
    pp[c].cause \in PersistenceCauses => pp[c].pc \notin {"failed", "poller_caught"}

\* upsert_match raised on the NaN price of a browser response and
\* _handle_response logged it; the api_error insert of the poller raised and
\* run_api_poller logged it
C18_Witness ==
  \/ \E c \in Tasks :
       pp[c].path = "web" /\ pp[c].pc = "failed" /\ pp[c].cause = "upsert_match"
  \/ \E c \in Tasks :
       pp[c].path = "api" /\ pp[c].pc = "poller_caught"


(***************************************************************************)
(* blocker.py: the strategy table, asked through next_action (the          *)
(* `analyze` command) for the block types a caller may hand over.          *)
(***************************************************************************)
\* s[1].upper() + s[2:], s without its last character, s without its first
Capitalized(s) == IF s = <<>> THEN s ELSE <<UpperChar(s[1])>> \o SubSeq(s, 2, Len(s))
DropLast(s) == IF s = <<>> THEN s ELSE SubSeq(s, 1, Len(s) - 1)
DropFirst(s) == IF s = <<>> THEN s ELSE SubSeq(s, 2, Len(s))

BaseTexts == {sGeo, sCaptcha, sRateLimit, sHtmlBlock, sWaf, <<>>}
CaseVariants(s) == {s, Upper(s), Capitalized(s)}
EditVariants(s) ==
  {s, <<" ">> \o s, s \o <<" ">>, <<" ">> \o s \o <<" ">>, s \o <<"\n">>, s \o <<"s">>,
   DropLast(s), DropFirst(s)}

\* the arguments: a text, or None
StrategyInputs ==
  {JNone} \cup {JStr(e) : e \in UNION {EditVariants(c) : c \in UNION {CaseVariants(b) : b \in BaseTexts}}}

\* next_action(block_type): s = choose_mitigation(block_type)
NextAction(block_type) ==
  /\ advice' = [asked |-> TRUE, block_type |-> block_type, strat |-> choose_mitigation(block_type)]
  /\ UNCHANGED <<storeVars, today, pipeVars, parseVars, rotVars, readVars, capVars, fetchVars, cycleVars, huntVars>>

StrategyInit == StoreInit
StrategyNext == \E block_type \in StrategyInputs : NextAction(block_type)
SpecStrategy == StrategyInit /\ [][StrategyNext]_vars

\* the strategy table of the Mitigation Engine
StrategyTable ==
  {<<sGeo, "rotate_proxy_or_hu_exit">>,
   <<sCaptcha, "stealth_and_retry_with_human_mouse">>,
   <<sRateLimit, "backoff_and_randomize">>,
   <<sHtmlBlock, "force_proxy_and_web_context">>}

\* the strategy the table gives the text t: its row, generic_retry without one
TableGives(t, strat) ==
  \/ <<t, strat>> \in StrategyTable
  \/ strat = "generic_retry" /\ \A row \in StrategyTable : row[1] # t

\* the text asked about, "" for None
AskedText == IF IsStr(advice.block_type) THEN advice.block_type.s ELSE <<>>

\* C13, as stated: choose_mitigation implements exactly the fixed strategy
\* table for every input string, and every other value (including empty or
\* absent) gives generic_retry.
C13_TableExact == advice.asked => TableGives(AskedText, advice.strat)

\* C13, amended: choose_mitigation looks its argument up in the table after
\* lowercasing it (and without stripping it); a value whose lowercase form
\* is no key of the table, the empty and the absent one included, gives
\* generic_retry.
C13_TableAfterLower == advice.asked => TableGives(Lower(AskedText), advice.strat)

\* "GEO_IP_BLOCK" has been asked about: the proxy rotation
C13_Witness ==
  /\ advice.asked
  /\ advice.block_type = JStr(sGeoUpper)
  /\ advice.strat = "rotate_proxy_or_hu_exit"


\* the call was made for a block type other than geo_ip_block and has returned
OtherCallReturned == rot.pc = "returned" /\ Lower(rot.block_type) # sGeo

\* a step that changes the Active Proxy State is a step of a rotate_proxy
\* call whose scan found the passing candidate it writes
WriteOfRotation ==
  active_proxy' # active_proxy =>
    /\ rot.pc \in {"gather", "writing"}
    /\ Lower(rot.block_type) = sGeo
    /\ rot'.selected \in Passing
    /\ active_proxy'.text \in {"", Urls[rot'.selected]}

\* C12: the Active Proxy State changes only in a rotate_proxy call that
\* found a passing candidate; auto_mitigate with captcha, rate_limit,
\* html_block or an unrecognized block type returns None without probing and
\* leaves the state unchanged.
C12_OnlyRotationWrites ==
  /\ [][WriteOfRotation]_vars
  /\ [](OtherCallReturned =>
          /\ rot.ret = RetNone
          /\ rot.started = {} /\ rot.answered = <<>> /\ rot.selected = 0)
  /\ [][OtherCallReturned' => active_proxy' = active_proxy]_vars

\* a rotation replaced "prev" by the candidate it selected
C12_Witness ==
  /\ GeoCallReturned
  /\ rot.before = "prev"
  /\ rot.selected # 0
  /\ active_proxy = [exists |-> TRUE, text |-> Urls[rot.selected]]

\* no step of the store, of the handlers or of a reader writes the state
C12_OthersLeaveTheState == [][active_proxy' = active_proxy]_vars

\* a call for another block type returns with the state it found, while a
\* rotation that found a candidate may end with None and an emptied file
C12_StateAfterReturn ==
  /\ OtherCallReturned => ReadActive(active_proxy) = rot.before
  /\ (GeoCallReturned /\ rot.selected = 0) => ReadActive(active_proxy) = rot.before


\* an override is configured: the variable is set to a text that is not empty
Configured(v) == v # Unset /\ v # ""

\* the override the environment e asks for (PROXY_URL, else HTTPS_PROXY, else
\* HTTP_PROXY), Unset without one
OverrideOf(e) ==
  IF Configured(e.PROXY_URL) THEN e.PROXY_URL
  ELSE IF Configured(e.HTTPS_PROXY) THEN e.HTTPS_PROXY
  ELSE IF Configured(e.HTTP_PROXY) THEN e.HTTP_PROXY
  ELSE Unset

MaxTime == 2
\* how long the wall clock is followed
MaxWall == 3
\* the attempt from which the exponential wait no longer grows in the model
MaxTries == 2
\* abandoned capture_page generators not yet finalized
MaxOrphans == 1

Min(a, b) == IF a <= b THEN a ELSE b

\* backoff.expo: 1, 2, 4, ... for the first, second, third ... wait
Expo(tries) == 2 ^ (tries - 1)

\* max_time_exceeded = elapsed >= max_time, elapsed taken before the attempt
GiveUp(c) == c.elapsed >= MaxTime

\* full jitter and the cap of the wait: min(uniform(0, value), max_time - elapsed);
\* no wait is drawn for an attempt that is not retried
Waits(c) ==
  IF GiveUp(c) THEN {0}
  ELSE 0..Min(Min(Expo(c.tries), MaxTime - c.elapsed), MaxWall - wall)

\* an exception leaves the source: backoff re-raises it or sleeps `wait`
Fails(c, wait) ==
  IF GiveUp(c) THEN [c EXCEPT !.sup = "raised", !.pc = "none"]
  ELSE [c EXCEPT !.sup = "backoff", !.pc = "none", !.wake = wall + wait,
                 !.waited = c.waited + wait]

FirstPc(s) == IF s = "web" THEN "launch" ELSE "construct"

\* run.py and run_api.py (and `scrape --mode web|api`) run one source under
\* asyncio.run: the first call of the wrapper
Start(s) ==
  /\ \A o \in Sources : cap[o].sup = "off"
  /\ wall = 0
  /\ cap' = [cap EXCEPT ![s] = [cap[s] EXCEPT !.sup = "running", !.pc = FirstPc(s),
                                             !.tries = 1, !.elapsed = 0]]
  /\ UNCHANGED <<storeVars, today, pipeVars, parseVars, rotVars, readVars, clsVars, wall, fetchVars, cycleVars, huntVars>>

\* asyncio.sleep(seconds) of the wrapper is over: the next attempt
Resume(s) ==
  /\ cap[s].sup = "backoff"
  /\ wall >= cap[s].wake
  /\ cap' = [cap EXCEPT ![s] = [cap[s] EXCEPT !.sup = "running", !.pc = FirstPc(s),
                                             !.tries = Min(cap[s].tries + 1, MaxTries),
                                             !.elapsed = wall, !.wake = 0]]
  /\ UNCHANGED <<storeVars, today, pipeVars, parseVars, rotVars, readVars, clsVars, wall, fetchVars, cycleVars, huntVars>>

\* the proxy a new browser or client is built with
ProxyNow == get_proxy_from_env(osenv["other"], active_proxy, TRUE)

\* a variant: the abandoned generator is never finalized
KeepOrphans(n) == n

\* the finalizer hook of the event loop runs aclose() of an abandoned
\* generator: its finally blocks close the context and the browser
CloseOrphan(n) == n - 1

\* launch_browser: the proxy is read, then chromium is launched
Launch(s, ok) ==
  /\ s = "web" /\ cap[s].sup = "running" /\ cap[s].pc = "launch"
  /\ \E wait \in Waits(cap[s]) :
       cap' = [cap EXCEPT ![s] =
                 IF ok THEN [cap[s] EXCEPT !.pc = "navigate", !.session = "open",
                                           !.context = "none", !.proxy = ProxyNow]
                 ELSE Fails(cap[s], wait)]
  /\ UNCHANGED <<storeVars, today, pipeVars, parseVars, rotVars, readVars, clsVars, wall, fetchVars, cycleVars, huntVars>>

\* capture_page before its yield: new_context, new_page, goto; an exception
\* leaves `async with launch_browser`, which closes the browser
Navigate(s, ok) ==
  /\ s = "web" /\ cap[s].sup = "running" /\ cap[s].pc = "navigate"
  /\ \E wait \in Waits(cap[s]) :
       cap' = [cap EXCEPT ![s] =
                 IF ok THEN [cap[s] EXCEPT !.pc = "observe", !.context = "open"]
                 ELSE Fails([cap[s] EXCEPT !.session = "closed"], wait)]
  /\ UNCHANGED <<storeVars, today, pipeVars, parseVars, rotVars, readVars, clsVars, wall, fetchVars, cycleVars, huntVars>>

\* a handler of the page sees a redirect to the marker and records the
\* geo_ip_block event
ObserveGeo(s) ==
  /\ s = "web" /\ cap[s].sup = "running" /\ cap[s].pc = "observe"
  /\ ~cap[s].geo
  /\ cap' = [cap EXCEPT ![s].geo = TRUE]
  /\ UNCHANGED <<storeVars, today, pipeVars, parseVars, rotVars, readVars, clsVars, wall, fetchVars, cycleVars, huntVars>>

\* the body of `async for page in capture_page(...)` ends: normally (the
\* waits are inside try/except Exception), or by an exception of the
\* registrations, which leaves the generator suspended at its yield
EndObserve(s, ok) ==
  /\ s = "web" /\ cap[s].sup = "running" /\ cap[s].pc = "observe"
  /\ ok \/ cap[s].orphans < MaxOrphans
  /\ \E wait \in Waits(cap[s]) :
       cap' = [cap EXCEPT ![s] =
                 IF ok THEN [cap[s] EXCEPT !.pc = "teardown"]
                 ELSE Fails([cap[s] EXCEPT !.session = "none", !.context = "none",
                                           !.orphans = cap[s].orphans + 1], wait)]
  /\ UNCHANGED <<storeVars, today, pipeVars, parseVars, rotVars, readVars, clsVars, wall, fetchVars, cycleVars, huntVars>>

\* the generator is resumed: finally: await context.close()
Teardown(s) ==
  /\ s = "web" /\ cap[s].sup = "running" /\ cap[s].pc = "teardown"
  /\ cap' = [cap EXCEPT ![s] = [cap[s] EXCEPT !.pc = "closing", !.context = "closed"]]
  /\ UNCHANGED <<storeVars, today, pipeVars, parseVars, rotVars, readVars, clsVars, wall, fetchVars, cycleVars, huntVars>>

\* launch_browser: finally: await browser.close(); then asyncio.sleep(interval)
CloseBrowser(s) ==
  /\ s = "web" /\ cap[s].sup = "running" /\ cap[s].pc = "closing"
  /\ cap' = [cap EXCEPT ![s] = [cap[s] EXCEPT !.pc = "sleep", !.session = "closed"]]
  /\ UNCHANGED <<storeVars, today, pipeVars, parseVars, rotVars, readVars, clsVars, wall, fetchVars, cycleVars, huntVars>>

\* the aclose() task of an abandoned generator has run.  While the wrapper
\* sleeps inside its except block, the exception it holds keeps the frame of
\* the failed attempt, and with it the generator, alive
Finalize(s) ==
  /\ cap[s].orphans > 0
  /\ cap[s].sup # "backoff"
  /\ cap' = [cap EXCEPT ![s].orphans = CloseOrphan(cap[s].orphans)]
  /\ UNCHANGED <<storeVars, today, pipeVars, parseVars, rotVars, readVars, clsVars, wall, fetchVars, cycleVars, huntVars>>

\* run_api_poller: the proxy is read and the client built; the constructor
\* raises for a proxy URL it cannot use
Construct(s, ok) ==
  /\ s = "api" /\ cap[s].sup = "running" /\ cap[s].pc = "construct"
  /\ \E wait \in Waits(cap[s]) :
       cap' = [cap EXCEPT ![s] =
                 IF ok THEN [cap[s] EXCEPT !.pc = "poll", !.session = "open", !.proxy = ProxyNow]
                 ELSE Fails(cap[s], wait)]
  /\ UNCHANGED <<storeVars, today, pipeVars, parseVars, rotVars, readVars, clsVars, wall, fetchVars, cycleVars, huntVars>>

\* poll_api_once inside try/except Exception: it returns, it records a
\* geo_ip_block event, or it raises and run_api_poller logs the exception
PollKinds == {"ok", "geo", "error"}
Poll(s, kind) ==
  /\ s = "api" /\ cap[s].sup = "running" /\ cap[s].pc = "poll"
  /\ cap' = [cap EXCEPT ![s] = [cap[s] EXCEPT !.pc = "sleep",
                                             !.geo = cap[s].geo \/ kind = "geo"]]
  /\ UNCHANGED <<storeVars, today, pipeVars, parseVars, rotVars, readVars, clsVars, wall, fetchVars, cycleVars, huntVars>>

\* asyncio.sleep(interval_seconds) is over: the next cycle
SleepEnd(s) ==
  /\ cap[s].sup = "running" /\ cap[s].pc = "sleep"
  /\ cap' = [cap EXCEPT ![s].pc = IF s = "web" THEN "launch" ELSE "poll"]
  /\ UNCHANGED <<storeVars, today, pipeVars, parseVars, rotVars, readVars, clsVars, wall, fetchVars, cycleVars, huntVars>>

\* the task is cancelled (shutdown): CancelledError is no Exception, so it
\* passes every except clause and the wrapper.  Inside capture_page and
\* inside `async with httpx.AsyncClient` the finally blocks and __aexit__
\* close what is open; inside the body of `async for` the generator is left
\* suspended
Cancel(s) ==
  /\ cap[s].sup \in {"running", "backoff"}
  /\ cap[s].pc = "observe" => cap[s].orphans < MaxOrphans
  /\ cap' = [cap EXCEPT ![s] =
               IF cap[s].pc = "observe"
               THEN [cap[s] EXCEPT !.sup = "cancelled", !.pc = "none", !.session = "none",
                                   !.context = "none", !.orphans = cap[s].orphans + 1]
               ELSE [cap[s] EXCEPT !.sup = "cancelled", !.pc = "none",
                                   !.session = IF cap[s].session = "open" THEN "closed"
                                               ELSE cap[s].session,
                                   !.context = IF cap[s].context = "open" THEN "closed"
                                               ELSE cap[s].context]]
  /\ UNCHANGED <<storeVars, today, pipeVars, parseVars, rotVars, readVars, clsVars, wall, fetchVars, cycleVars, huntVars>>

\* a tick of the wall clock
Pass ==
  /\ wall < MaxWall
  /\ \E s \in Sources : cap[s].sup # "off"
  /\ wall' = wall + 1
  /\ UNCHANGED <<storeVars, today, pipeVars, parseVars, rotVars, readVars, clsVars, cap, fetchVars, cycleVars, huntVars>>

CaptureInit ==
  /\ StoreIdle /\ today = BaseDay /\ PipeIdle /\ ParseIdle /\ ReadIdle /\ ClsIdle /\ CapIdle /\ FetchIdle /\ CycleIdle /\ HuntIdle
  /\ env = <<[whoami |-> Whoami(sHU), tippmix |-> TRUE]>>
  /\ rot = IdleRot
  /\ active_proxy = PrevFile

CaptureStep(s) ==
  \/ Start(s)
  \/ Resume(s)
  \/ \E ok \in BOOLEAN : Launch(s, ok)
  \/ \E ok \in BOOLEAN : Navigate(s, ok)
  \/ ObserveGeo(s)
  \/ \E ok \in BOOLEAN : EndObserve(s, ok)
  \/ Teardown(s)
  \/ CloseBrowser(s)
  \/ Finalize(s)
  \/ \E ok \in BOOLEAN : Construct(s, ok)
  \/ \E kind \in PollKinds : Poll(s, kind)
  \/ SleepEnd(s)
  \/ Cancel(s)

\* one source under its supervisor
CaptureNext ==
  \/ \E s \in Sources : CaptureStep(s)
  \/ Pass

\* the same beside the `mitigate` command, run by the operator at any time
MitigatedNext ==
  \/ \E s \in Sources : CaptureStep(s)
  \/ Pass
  \/ AutoMitigate(sGeo)
  \/ \E i \in 1..Len(Urls) : StartProbe(i)
  \/ \E i \in 1..Len(Urls) : FinishProbe(i)
  \/ EndBatch
  \/ WriteAndClose

\* the event loop runs every task that is ready, every awaited browser or
\* network operation ends (each has a timeout), and time passes; failures,
\* cancellation and the `mitigate` command are left to the environment
CaptureFair ==
  /\ WF_vars(Pass)
  /\ \A s \in Sources :
       /\ WF_vars(Teardown(s)) /\ WF_vars(CloseBrowser(s)) /\ WF_vars(Finalize(s))
       /\ WF_vars(SleepEnd(s)) /\ WF_vars(Resume(s))
       /\ WF_vars(\E ok \in BOOLEAN : Launch(s, ok))
       /\ WF_vars(\E ok \in BOOLEAN : Navigate(s, ok))
       /\ WF_vars(\E ok \in BOOLEAN : EndObserve(s, ok))
       /\ WF_vars(\E ok \in BOOLEAN : Construct(s, ok))
       /\ WF_vars(\E kind \in PollKinds : Poll(s, kind))

SpecCapture == CaptureInit /\ [][CaptureNext]_vars /\ CaptureFair

SpecMitigated == CaptureInit /\ [][MitigatedNext]_vars /\ CaptureFair


\* the source is outside a capture cycle: between two cycles, waiting in the
\* wrapper, or ended by the re-raised exception or by cancellation
LeftCycle(s) ==
  \/ cap[s].sup \in {"backoff", "raised", "cancelled"}
  \/ s = "web" /\ cap[s].pc \in {"sleep", "launch"}

C17_RaisedOnlyAfterWindowOfRetrying ==
  \A s \in Sources : cap[s].sup = "raised" => cap[s].waited >= MaxTime

\* the source ran for the whole window, failed twice, and the second
\* failure was re-raised although nothing had been waited
C17_Witness ==
  \E s \in Sources : cap[s].sup = "raised" /\ cap[s].waited = 0 /\ cap[s].tries = 2

\* what the wrapper does: the window runs from its first call, the attempt
\* that began inside it is retried after a wait that ends inside it, the
\* attempt that began after it is not
C17_WindowFromFirstCall ==
  \A s \in Sources :
    /\ cap[s].sup = "raised" => cap[s].elapsed >= MaxTime
    /\ cap[s].sup = "backoff" =>
         /\ cap[s].elapsed < MaxTime
         /\ cap[s].wake <= wall + Min(Expo(cap[s].tries), MaxTime - cap[s].elapsed)

\* C19: a geo_ip_block classified by a capture source is followed by a run
\* of the proxy rotation, at the latest while the source is still running
\* (a source ended by cancellation or by the re-raised exception is not
\* held to it).
C19_GeoLeadsToRotation ==
  \A s \in Sources :
    cap[s].geo ~> (rot.pc # "idle" \/ cap[s].sup \in {"raised", "cancelled"})

\* a source has recorded a geo_ip_block, has gone through later cycles, and
\* no rotation has been started
C19_Witness ==
  \E s \in Sources : cap[s].geo /\ cap[s].pc = "sleep" /\ rot.pc = "idle"

\* the proxy of a session is the Active Proxy State as it was when the
\* session was built: the browser is built in every cycle, the client once
\* for every attempt of run_api_poller
C19_ProxyReadAtConstruction ==
  [][\A s \in Sources :
       (cap[s].session # "open" /\ cap'[s].session = "open") => cap'[s].proxy = ProxyNow]_vars

\* the API poller keeps polling through the client it built before the
\* rotation wrote another proxy
C19_StaleClient ==
  /\ cap["api"].pc = "poll" /\ cap["api"].geo /\ rot.pc = "returned" /\ rot.ret # RetNone
  /\ cap["api"].proxy # ReadActive(active_proxy)


(***************************************************************************)
(* parse_match applied to records that differ in the keys one rule reads   *)
(***************************************************************************)
\* a key the record does not have
Absent == [t |-> "absent"]

\* the JSON object with the keys of `fields` that are not Absent
Object(fields) == JDict([k \in {x \in DOMAIN fields : fields[x] # Absent} |-> fields[k]])

OrAbsent(values) == {Absent} \cup values

\* records with both teams, for the filter: a keyword or none in each of the
\* five keys is_esport_football reads
FilterItems ==
  {Object([home |-> JStr(sA), away |-> JStr(sB), sport |-> sp, sportName |-> sn,
           league |-> lg, tournament |-> tn, name |-> nm]) :
     sp \in OrAbsent({JStr(sTennis), JStr(sEsport)}), sn \in OrAbsent({JStr(sEsport)}),
     lg \in OrAbsent({JStr(sFifa)}), tn \in OrAbsent({JStr(sFifa)}),
     nm \in OrAbsent({JStr(sA), JStr(sFoci)})}

FilterInit ==
  /\ StoreIdle /\ PipeIdle /\ RotIdle /\ ReadIdle /\ ClsIdle /\ CapIdle /\ FetchIdle /\ CycleIdle /\ HuntIdle
  /\ today = BaseDay
  /\ item \in FilterItems
  /\ parsed = <<>>

SpecFilter == FilterInit /\ [][ParseNext]_vars

\* the text of key k of the record contains an esport keyword, in any case
FieldHasKeyword(it, k) == IsStr(Get(it, k)) /\ HasKeyword(Lower(Get(it, k).s))

\* C21: a candidate with both teams is accepted if and only if its sport or
\* sportName, its league or tournament, or its name contains an esport
\* keyword; a record whose only keyword is in sportName or in tournament is
\* kept.
C21_AcceptedIffKeyword ==
  \A i \in 1..Len(parsed) :
    item \in FilterItems =>
      (parsed[i] # NoMatch <=> \E k \in ScannedKeys : FieldHasKeyword(item, k))

\* a record whose only keyword is in sportName has been rejected
C21_Witness ==
  /\ Len(parsed) >= 1 /\ item \in FilterItems
  /\ FieldHasKeyword(item, "sportName")
  /\ \A k \in ScannedKeys \ {"sportName"} : ~FieldHasKeyword(item, k)
  /\ parsed[1] = NoMatch

\* what does hold: a keyword in sport, league or name is enough; sportName
\* and tournament are read only where sport or league is the empty text,
\* and an absent key is read as the text "None"
C21_FirstKeysSuffice ==
  \A i \in 1..Len(parsed) :
    (item \in FilterItems /\ \E k \in {"sport", "league", "name"} : FieldHasKeyword(item, k))
      => parsed[i] # NoMatch

\* a record without a keyword in any key has been accepted: "none none foci"
\* holds "e foci"
C21_AcceptedWithoutKeyword ==
  /\ Len(parsed) >= 1 /\ item \in FilterItems
  /\ \A k \in ScannedKeys : ~FieldHasKeyword(item, k)
  /\ parsed[1] # NoMatch


\* records with both teams and a keyword, for the identifier: each identifier
\* key absent or set (id also to the number 0), the start under `start`,
\* under `startTime`, under both or under neither
IdentItems ==
  {Object([home |-> JStr(sA), away |-> JStr(sB), sport |-> JStr(sEsport),
           id |-> a, matchId |-> b, eventId |-> c, fixtureId |-> d,
           start |-> st, startTime |-> stt]) :
     a \in OrAbsent({JStr(s42), JInt(0)}), b \in OrAbsent({JStr(s7)}),
     c \in OrAbsent({JInt(99)}), d \in OrAbsent({JStr(s99)}),
     st \in OrAbsent({JInt(1714586400)}), stt \in OrAbsent({JStr(DateFull)})}

IdentInit ==
  /\ StoreIdle /\ PipeIdle /\ RotIdle /\ ReadIdle /\ ClsIdle /\ CapIdle /\ FetchIdle /\ CycleIdle /\ HuntIdle
  /\ today = BaseDay
  /\ item \in IdentItems
  /\ parsed = <<>>

SpecIdent == IdentInit /\ [][ParseNext]_vars

IdentifierKeys == <<"id", "matchId", "eventId", "fixtureId">>

\* the first of the keys whose value is set (neither missing, empty nor 0)
RECURSIVE FirstPresent(_, _)
FirstPresent(it, keys) ==
  IF Len(keys) = 0 THEN Absent
  ELSE IF Truthy(Get(it, Head(keys))) THEN Get(it, Head(keys))
  ELSE FirstPresent(it, Tail(keys))

\* the value start_time is parsed from (line 81)
StartValue(it) == GetOr(it, <<"start", "startTime", "kickoff", "date">>)

\* home-away-start with the given start value
Synthesized(it, start) ==
  PyStr(Get(it, "home")) \o <<"-">> \o PyStr(Get(it, "away")) \o <<"-">> \o PyStr(start)

\* C22: match_id is the first present identifier among id, matchId, eventId,
\* fixtureId; when none is present it is synthesized from home, away and the
\* start value from which start_time is parsed.
C22_IdFromIdentifierOrStartValue ==
  \A i \in 1..Len(parsed) :
    item \in IdentItems =>
      /\ parsed[i].t = "match"
      /\ parsed[i].match_id =
           IF FirstPresent(item, IdentifierKeys) # Absent
           THEN PyStr(FirstPresent(item, IdentifierKeys))
           ELSE Synthesized(item, StartValue(item))

\* a record without identifier whose start is under startTime: start_time
\* is parsed from it, the id ends in "None"
C22_Witness ==
  /\ Len(parsed) >= 1 /\ item \in IdentItems
  /\ FirstPresent(item, IdentifierKeys) = Absent
  /\ Get(item, "start") = JNone /\ Get(item, "startTime") = JStr(DateFull)
  /\ parsed[1].start_time = Dt(DateFullDay, 0, 0)
  /\ parsed[1].match_id = Synthesized(item, JNone)

\* what does hold: the synthesized id reads the key `start` alone, and two
\* applications to one record give one id
C22_IdFromStartKey ==
  \A i, j \in 1..Len(parsed) :
    item \in IdentItems =>
      /\ parsed[i].match_id = parsed[j].match_id
      /\ FirstPresent(item, IdentifierKeys) = Absent =>
           parsed[i].match_id = Synthesized(item, Get(item, "start"))


\* prices as they come: a decimal text, a float, a negative text, a negative
\* integer, nan, an unreadable text, a list
pNeg150 == <<"-","1",".","5","0">>
pZero == <<"0">>

\* a selection with its price keys
Selection(name, fields) ==
  Object([name |-> JStr(name), odds |-> fields.odds, price |-> fields.price,
          value |-> fields.value])

NoPrice == [odds |-> Absent, price |-> Absent, value |-> Absent]

\* the price under `odds`; none at all; 0 under `odds` beside a price under
\* `price`; 0 under `odds` alone; 0 under `value`
PriceFields ==
  {[NoPrice EXCEPT !.odds = p] :
     p \in {JStr(p185), JFloat(210), JStr(pNeg150), JNeg(2), JStr(sNan), JStr(sGarbage),
            JStr(pZero), EmptyList, JInt(0)}}
    \cup {NoPrice, [NoPrice EXCEPT !.odds = JInt(0), !.price = JStr(p150)],
          [NoPrice EXCEPT !.value = JInt(0)]}

\* records with one market of two selections, and with two markets of one
OddsItems ==
  {EsportItem(s42, JList(<<Market(s1X2, <<Selection(sHome, f), Selection(sAway, g)>>)>>)) :
     f \in PriceFields, g \in PriceFields}
    \cup {EsportItem(s42, JList(<<Market(s1X2, <<Selection(sHome, f)>>),
                                  Market(sFoci, <<Selection(sAway, [NoPrice EXCEPT !.odds = JFloat(210)])>>)>>)) :
            f \in PriceFields}

OddsInit ==
  /\ StoreIdle /\ PipeIdle /\ RotIdle /\ ReadIdle /\ ClsIdle /\ CapIdle /\ FetchIdle /\ CycleIdle /\ HuntIdle
  /\ today = BaseDay
  /\ item \in OddsItems
  /\ parsed = <<>>

SpecOdds == OddsInit /\ [][ParseNext]_vars

\* the price of a selection: the first of odds, price, decimal, value that
\* is set (the last one's value when none is)
PriceOf(sel) == GetOr(sel, <<"odds", "price", "decimal", "value">>)

HasNumericPrice(sel) == ~IsRaised(PyFloat(PriceOf(sel)))

\* the selections of one market that have a numeric price, as MatchOdds
NumericOf(mk, kept) ==
  [j \in 1..Len(kept) |->
     MatchOdd(Get(mk, "name").s, Get(kept[j], "name").s, PyFloat(PriceOf(kept[j])))]

RECURSIVE NumericSelections(_)
NumericSelections(markets) ==
  IF Len(markets) = 0 THEN <<>>
  ELSE NumericOf(Head(markets), SelectSeq(Get(Head(markets), "selections").l, HasNumericPrice))
         \o NumericSelections(Tail(markets))

C24_PricesPositive ==
  \A i \in 1..Len(parsed) :
    (item \in OddsItems /\ parsed[i].t = "match") =>
      \A j \in 1..Len(parsed[i].odds) :
        parsed[i].odds[j].odds.k = "fin" /\ parsed[i].odds[j].odds.c > 0

\* a Match with the odd -1.50
C24_Witness ==
  /\ Len(parsed) >= 1 /\ item \in OddsItems /\ parsed[1].t = "match"
  /\ \E j \in 1..Len(parsed[1].odds) : parsed[1].odds[j].odds = JFloat(0 - 150)

\* a Match with the odd 0.0, from the text "0" or from 0 under `value`
C24_ZeroKept ==
  /\ Len(parsed) >= 1 /\ item \in OddsItems /\ parsed[1].t = "match"
  /\ \E j \in 1..Len(parsed[1].odds) : parsed[1].odds[j].odds = JFloat(0)


sBlank == <<" ", " ">>

\* the numeric start values: seconds, milliseconds, the threshold
\* 10,000,000,000 and its neighbours, a number of milliseconds past year 9999
EpochStarts ==
  {JInt(1714586400), JBig(1714, 586400123), JBig(9, 999999999), JBig(10, 0), JBig(10, 1),
   JBig(10, 999), JBig(253, 402300799), JBig(300000000, 0)}

\* the start values that are not a number of seconds or milliseconds
OtherStarts ==
  {Absent, JNone, JStr(<<>>), JStr(sBlank), JStr(sGarbage), EmptyList, JList(<<JInt(5)>>),
   JDict([a |-> JInt(1)]), JNaN, JInf}

StartItems ==
  {Object([id |-> JStr(s42), home |-> JStr(sA), away |-> JStr(sB), sport |-> JStr(sEsport),
           start |-> st]) : st \in EpochStarts \cup OtherStarts \cup {JStr(DateFull), JNeg(5)}}

StartInit ==
  /\ StoreIdle /\ PipeIdle /\ RotIdle /\ ReadIdle /\ ClsIdle /\ CapIdle /\ FetchIdle /\ CycleIdle /\ HuntIdle
  /\ today = BaseDay
  /\ item \in StartItems
  /\ parsed = <<>>

SpecStart == StartInit /\ [][ParseNext]_vars

\* the number is 10,000,000,001 or more
OverTenBillion(v) == v.hi >= 11 \/ (v.hi = 10 /\ v.lo >= 1)

\* the datetime of second `secs` of day `days`, secs possibly a day or more
DayAndSecond(days, secs, ms) ==
  Dt(days + secs \div SecondsPerDay, secs % SecondsPerDay, ms)

\* v read as epoch milliseconds and as epoch seconds; datetime ends with 9999
AsMilliseconds(v) == DayAndSecond(0, v.hi * 1000000 + v.lo \div 1000, v.lo % 1000)
AsSeconds(v) == DayAndSecond(v.hi * DaysPerBillion, v.hi * SecondsPerBillionRest + v.lo, 0)
\* datetime.max is millisecond 253,402,300,799,999: the billions of it
LastMillisecondHi == 253402

\* C26: a numeric start above 10,000,000,000 is read as epoch milliseconds,
\* any other (10,000,000,000 itself too) as epoch seconds; an absent, empty,
\* unreadable or otherwise typed start gives an absent timestamp and no
\* exception.
C26_MillisecondsAboveTenBillion ==
  \A i \in 1..Len(parsed) :
    item \in StartItems =>
      /\ parsed[i].t = "match"
      /\ Get(item, "start") \in EpochStarts =>
           parsed[i].start_time =
             IF OverTenBillion(Get(item, "start"))
             THEN (IF Get(item, "start").hi > LastMillisecondHi THEN JNone
                   ELSE AsMilliseconds(Get(item, "start")))
             ELSE AsSeconds(Get(item, "start"))
      /\ Get(item, "start") \in OtherStarts => parsed[i].start_time = JNone
      /\ Get(item, "start") = JBig(10, 0) => parsed[i].start_time = Dt(115740, 64000, 0)
      /\ Get(item, "start") = JBig(10, 1) => parsed[i].start_time = Dt(115, 64000, 1)

\* the start 10,000,000,000 has been read as seconds
C26_Witness ==
  /\ Len(parsed) >= 1 /\ Get(item, "start") = JBig(10, 0)
  /\ parsed[1].t = "match" /\ parsed[1].start_time.day = 115740

\* the start 10,000,000,001 has been read as milliseconds, a list as nothing
C26_WitnessMilliseconds ==
  /\ Len(parsed) >= 1 /\ Get(item, "start") = JBig(10, 1)
  /\ parsed[1].t = "match" /\ parsed[1].start_time.day = 115


(***************************************************************************)
(* One JSON response whose body has a container key beside the keys of a   *)
(* record, or prices that are not positive                                 *)
(***************************************************************************)
MarketsNegative == JList(<<Market(s1X2, <<Sel(sHome, JStr(pNeg150))>>)>>)

\* the record 42 as the root object, with a container key beside its own
RootWith(fields) ==
  Object([id |-> JStr(s42), home |-> JStr(sA), away |-> JStr(sB), sport |-> JStr(sEsport),
          markets |-> MarketsOne, events |-> fields.events, data |-> fields.data,
          fixtures |-> fields.fixtures])

NoContainer == [events |-> Absent, data |-> Absent, fixtures |-> Absent]

\* an empty list; a list without objects; an object where a list is
\* expected; one record; records under two keys, the later key first in the
\* body; no container key at all
ContainerPayloads ==
  {RootWith([NoContainer EXCEPT !.events = EmptyList]),
   RootWith([NoContainer EXCEPT !.data = JList(<<JInt(5), JStr(sA)>>)]),
   RootWith([NoContainer EXCEPT !.data = JDict([id |-> JStr(s7)])]),
   RootWith([NoContainer EXCEPT !.events = JList(<<EsportItem(s7, MarketsAway)>>)]),
   RootWith([NoContainer EXCEPT !.fixtures = JList(<<EsportItem(s99, MarketsOneB)>>),
                                !.events = JList(<<EsportItem(s7, MarketsAway)>>)]),
   RootWith([NoContainer EXCEPT !.fixtures = JList(<<TennisItem>>)]),
   RootWith(NoContainer)}

BodyPayloads ==
  ContainerPayloads \cup {JDict([events |-> JList(<<EsportItem(s7, MarketsNegative)>>)])}

BodyNext ==
  \/ \E c \in Tasks \ {Poller}, payload \in BodyPayloads : HandleResponse(c, JsonResponse(payload))
  \/ \E payload \in BodyPayloads : PollApiOnce(Poller, JsonResponse(payload))
  \/ \E c \in Tasks : AfterNetworkEvent(c)
  \/ \E c \in Tasks : AfterRawAll(c)
  \/ \E c \in Tasks : AfterUpsert(c)
  \/ \E c \in Tasks : AfterRaw(c)
  \/ \E c \in Tasks : AfterApiError(c)
  \/ \E c \in Tasks : StoreExecute(c)
  \/ \E c \in Tasks : StoreCommit(c)
  \/ \E c \in Tasks : StoreAbort(c)

SpecBodies == PipeInit /\ [][BodyNext]_vars

\* process_payload of task c has chosen its candidates
CandidatesChosen(c) == pp[c].pc \in {"upsert", "raw", "done"} /\ IsDict(pp[c].payload)

\* the body has a recognized container key that holds a list
HasContainer(payload) == \E i \in 1..Len(ContainerKeys) : IsList(Get(payload, ContainerKeys[i]))

\* the objects under the container keys, in the order of the keys
RECURSIVE RecordsUnder(_, _)
RecordsUnder(payload, keys) ==
  IF Len(keys) = 0 THEN <<>>
  ELSE (IF IsList(Get(payload, Head(keys)))
        THEN SelectSeq(Get(payload, Head(keys)).l, IsDict) ELSE <<>>)
         \o RecordsUnder(payload, Tail(keys))

\* C25: the candidates are the records under the recognized container keys,
\* in the order of the keys, and the root object is the single candidate
\* only when no container key matched; a body with a container key, be its
\* list empty or without objects, never has its root extracted as a match.
C25_RootOnlyWithoutContainer ==
  \A c \in Tasks :
    CandidatesChosen(c) =>
      /\ pp[c].cands = IF HasContainer(pp[c].payload)
                       THEN RecordsUnder(pp[c].payload, ContainerKeys)
                       ELSE <<pp[c].payload>>
      /\ (HasContainer(pp[c].payload) /\ pp[c].payload \in ContainerPayloads) =>
           \A r \in db.matches : r.match_id # s42

\* the body {"events": [], ...record 42...} has been processed and its root
\* is in the store as match 42
C25_Witness ==
  \E c \in Tasks :
    /\ pp[c].pc = "done" /\ pp[c].payload = RootWith([NoContainer EXCEPT !.events = EmptyList])
    /\ pp[c].cands = <<pp[c].payload>>
    /\ \E r \in db.matches : r.match_id = s42

\* what does hold: the root is the candidate exactly when the container keys
\* gave no record
C25_RootWhenNoRecordFound ==
  \A c \in Tasks :
    CandidatesChosen(c) =>
      pp[c].cands = IF RecordsUnder(pp[c].payload, ContainerKeys) = <<>>
                    THEN <<pp[c].payload>>
                    ELSE RecordsUnder(pp[c].payload, ContainerKeys)

\* the odds row (7, 1X2, Home, -1.50) is in the store
C24_NegativeRowStored ==
  \E r \in db.odds : r.match_id = s7 /\ r.odds = JFloat(0 - 150)


\* C28: every response with a JSON content type observed by either capture
\* source results in at least one raw_responses row, whether or not a match
\* was extracted from it.
C28_JsonBodyLogged ==
  \A c \in Tasks :
    (OnlyPayload(c) /\ pp[c].pc = "done" /\ Contains(Lower(pp[c].ctype), sJsonWord)) =>
      Len(db.raw_responses) >= 1

\* the browser's handler is through with the body {"events": [Tennis
\* record]}, and raw_responses is empty
C28_Witness ==
  \E c \in Tasks :
    /\ OnlyPayload(c) /\ pp[c].pc = "done" /\ pp[c].path = "web"
    /\ pp[c].payload = PayloadTennis
    /\ db.raw_responses = <<>>

\* what does hold: the poller logs every JSON body it is through with, and
\* the browser's handler logs the records it stored
C28_PollerLogsEveryBody ==
  \A c \in Tasks :
    (OnlyPayload(c) /\ pp[c].pc = "done" /\ Contains(Lower(pp[c].ctype), sJsonWord)) =>
      /\ pp[c].path = "api" =>
           \E j \in 1..Len(db.raw_responses) :
             db.raw_responses[j].match_id = JNone
               /\ db.raw_responses[j].payload = JsonDumps(pp[c].payload)
      /\ pp[c].path = "web" => Len(db.raw_responses) = pp[c].inserted


\* the probes that have started and not answered yet
InFlight == rot.started \ Answered

\* C29: during rotate_proxy at most `batch` probes (30) are in flight, all of
\* them candidates of the same batch, and no probe of a later batch has
\* started before every probe of the batches before it has completed.
C29_OneBatchInFlight ==
  /\ Cardinality(InFlight) <= BatchSize
  /\ \A i, j \in InFlight : BatchIndex(i) = BatchIndex(j)
  /\ \A i \in rot.started :
       \A j \in 1..Len(env) : BatchIndex(j) < BatchIndex(i) => j \in Answered

\* a whole batch in flight, after the batch before it has answered
C29_Witness ==
  /\ rot.pc = "gather" /\ rot.lo > 1
  /\ Cardinality(InFlight) = BatchSize
  /\ \A j \in 1..(rot.lo - 1) : j \in Answered


(***************************************************************************)
(* fetch_candidates: the proxy sources are asked one after the other, the  *)
(* lines of every answer with status 200 are normalised and collected, and *)
(* the collection is deduplicated and cut.                                 *)
(***************************************************************************)
\* the number of sources asked (10 in PROXY_SOURCES) and the length the
\* result is cut to (1200 in fetch_candidates)
MaxSources == 4
CandidateCap == 3

\* PROXY_SOURCES, every URL by the part that tells it from the others
PROXY_SOURCES ==
  <<<<"h","t","t","p",".","t","x","t">>,
    <<"h","t","t","p","s",".","t","x","t">>,
    <<"s","o","c","k","s","4",".","t","x","t">>,
    <<"s","o","c","k","s","5",".","t","x","t">>,
    <<"p","r","o","t","o","c","o","l","i","p","p","o","r","t">>,
    <<"p","r","o","x","y","t","y","p","e","=","h","t","t","p">>,
    <<"p","r","o","x","y","t","y","p","e","=","h","t","t","p","s">>,
    <<"p","r","o","x","y","t","y","p","e","=","s","o","c","k","s","5">>,
    <<"t","y","p","e","=","h","t","t","p">>,
    <<"t","y","p","e","=","h","t","t","p","s">>>>
ProxySources == SubSeq(PROXY_SOURCES, 1, MaxSources)

sSchemeSep == <<":","/","/">>
sSocks5 == <<"s","o","c","k","s","5">>
sSocks4 == <<"s","o","c","k","s","4">>
sHttpScheme == <<"h","t","t","p",":","/","/">>
sSocks5Scheme == <<"s","o","c","k","s","5",":","/","/">>
sSocks4Scheme == <<"s","o","c","k","s","4",":","/","/">>
hA == <<"1",".","1",":","8","0">>
hB == <<"2",".","2",":","8","0">>
hC == <<"3",".","3",":","8","0">>

\* r.text.splitlines() of the bodies the sources serve
SourceBodies ==
  {<<hA, hB>>,
   <<<<" ">> \o hB \o <<" ">>, <<>>, <<" ", " ">>, hA>>,
   <<sHttpScheme \o hA, hC, hB>>}
\* what client.get(u, timeout=20) gives: an exception or a response
GetRaised == [t |-> "raised"]
Answer(status, lines) == [t |-> "response", status |-> status, lines |-> lines]
SourceAnswers ==
  {GetRaised, Answer(503, <<hA, hB>>)} \cup {Answer(200, b) : b \in SourceBodies}

\* lines 43-50: a line without "://" gets the scheme guessed from the source
GuessScheme(u, s) ==
  IF Contains(s, sSchemeSep) THEN s
  ELSE IF Contains(u, sSocks5) THEN sSocks5Scheme \o s
  ELSE IF Contains(u, sSocks4) THEN sSocks4Scheme \o s
  ELSE sHttpScheme \o s

NotBlank(line) == Strip(line) # <<>>

\* lines 38-51: what one source adds to res
SourceLines(u, ans) ==
  IF ans.t = "raised" THEN <<>>
  ELSE IF ans.status # 200 THEN <<>>
  ELSE LET kept == SelectSeq(ans.lines, NotBlank)
       IN [j \in 1..Len(kept) |-> GuessScheme(u, Strip(kept[j]))]

Range(s) == {s[i] : i \in 1..Len(s)}

\* a variant: every entry is kept
AddAlways(uniq, p) == Append(uniq, p)

\* lines 59-62: an entry not seen yet is appended
AddUnseen(uniq, p) == IF p \in Range(uniq) THEN uniq ELSE Append(uniq, p)

\* lines 56-62: deduplicate preserving order
RECURSIVE UniqFrom(_, _, _)
UniqFrom(res, i, uniq) ==
  IF i > Len(res) THEN uniq ELSE UniqFrom(res, i + 1, AddUnseen(uniq, res[i]))
Uniq(res) == UniqFrom(res, 1, <<>>)

\* uniq[:1200]
Cut(uniq) == SubSeq(uniq, 1, Min(Len(uniq), CandidateCap))

\* fetch_candidates is called: res = []
FetchCandidates ==
  /\ fetch.pc = "idle"
  /\ fetch' = [fetch EXCEPT !.pc = "sources"]
  /\ UNCHANGED <<storeVars, today, pipeVars, parseVars, rotVars, readVars, clsVars, capVars, cycleVars, huntVars>>

\* one turn of `for u in PROXY_SOURCES`
GetSource(ans) ==
  /\ fetch.pc = "sources"
  /\ fetch.k < Len(ProxySources)
  /\ fetch' = [fetch EXCEPT !.k = fetch.k + 1,
                            !.answers = Append(fetch.answers, ans),
                            !.res = fetch.res \o SourceLines(ProxySources[fetch.k + 1], ans)]
  /\ UNCHANGED <<storeVars, today, pipeVars, parseVars, rotVars, readVars, clsVars, capVars, cycleVars, huntVars>>

\* after the loop: the client is closed, the list deduplicated and cut
ReturnCandidates ==
  /\ fetch.pc = "sources"
  /\ fetch.k = Len(ProxySources)
  /\ fetch' = [fetch EXCEPT !.pc = "returned", !.ret = Cut(Uniq(fetch.res))]
  /\ UNCHANGED <<storeVars, today, pipeVars, parseVars, rotVars, readVars, clsVars, capVars, cycleVars, huntVars>>

FetchNext ==
  \/ FetchCandidates
  \/ \E ans \in SourceAnswers : GetSource(ans)
  \/ ReturnCandidates

SpecFetch == StoreInit /\ [][FetchNext]_vars

\* what the source asked k-th served, when it answered with status 200
Served(k) ==
  IF fetch.answers[k].t = "response" /\ fetch.answers[k].status = 200
  THEN SourceLines(ProxySources[k], fetch.answers[k])
  ELSE <<>>
\* the places an entry was served at: source and line, in the order asked
Places(x) == UNION {{<<k, j>> : j \in {j \in 1..Len(Served(k)) : Served(k)[j] = x}} :
                      k \in 1..Len(fetch.answers)}
Before(p, q) == p[1] < q[1] \/ (p[1] = q[1] /\ p[2] < q[2])
FirstPlace(x) == CHOOSE p \in Places(x) : \A q \in Places(x) : p = q \/ Before(p, q)
ServedEntries == UNION {Range(Served(k)) : k \in 1..Len(fetch.answers)}

\* C30: the list fetch_candidates returns has no duplicates, holds only
\* entries served with status 200, in the order of their first occurrence
\* across the sources in PROXY_SOURCES order, is at most the cap long, and
\* leaves an entry out only when the cap was reached before it; a source
\* that raised or answered another status adds nothing and stops nothing.
C30_UniqueFirstSeenCapped ==
  fetch.pc = "returned" =>
    LET ret == fetch.ret
    IN /\ \A i, j \in 1..Len(ret) : i # j => ret[i] # ret[j]
       /\ Len(ret) <= CandidateCap
       /\ Range(ret) \subseteq ServedEntries
       /\ \A i, j \in 1..Len(ret) : i < j => Before(FirstPlace(ret[i]), FirstPlace(ret[j]))
       /\ \A x \in ServedEntries \ Range(ret) :
            /\ Len(ret) = CandidateCap
            /\ Before(FirstPlace(ret[Len(ret)]), FirstPlace(x))

\* a call where one source raised, one answered 503, an entry came twice
\* and the cap cut the list, with an entry served after the failures kept
C30_Witness ==
  /\ fetch.pc = "returned"
  /\ fetch.answers[1] = GetRaised
  /\ fetch.answers[2].t = "response" /\ fetch.answers[2].status = 503
  /\ Len(fetch.res) > Len(Uniq(fetch.res))
  /\ Len(Uniq(fetch.res)) > CandidateCap
  /\ Len(fetch.ret) = CandidateCap


(***************************************************************************)
(* One cycle of the API poller: poll_api_once asks the endpoints one after *)
(* the other with the client run_api_poller keeps open.                    *)
(***************************************************************************)
\* the cycles run_api_poller makes in a checked run
MaxCycles == 2

API_ENDPOINTS == <<"/tippmix/search-filter", "/event", "/tippmix/search">>

\* what client.get and the body give: an exception of the request, a JSON
\* body, a body declared JSON that resp.json() cannot read, an HTML page
NetworkErrors == {"connect_error", "timeout"}
EndpointAnswers == NetworkErrors \cup {"json", "bad_json", "html"}
\* a store call (aiosqlite) returns or raises
StoreOutcomes == {"ok", "raised"}

Logged(c, phase) == [c EXCEPT !.events = Append(c.events, [phase |-> phase, k |-> c.k])]

\* the end of a turn of `for path in API_ENDPOINTS`
NextEndpoint(c) ==
  IF c.k < Len(API_ENDPOINTS) THEN [c EXCEPT !.k = c.k + 1, !.pc = "get"]
  ELSE [c EXCEPT !.pc = "returned"]

\* a variant: the except branch ends the cycle
ReturnAfterError(c) == [c EXCEPT !.pc = "returned"]

\* the end of the except branch (lines 436-453 raise nothing): the loop goes on
ContinueAfterError(c) == NextEndpoint(c)

\* run_api_poller, lines 468-470: the client is opened
OpenClient ==
  /\ cycle.pc = "off"
  /\ cycle' = [cycle EXCEPT !.pc = "loop", !.client = "open"]
  /\ UNCHANGED <<storeVars, today, pipeVars, parseVars, rotVars, readVars, clsVars, capVars, fetchVars, huntVars>>

\* run_api_poller, line 473: poll_api_once is called
BeginCycle ==
  /\ cycle.pc = "loop"
  /\ cycle.cycles < MaxCycles
  /\ cycle' = [cycle EXCEPT !.pc = "get", !.k = 1, !.answer = "none", !.requested = <<>>,
                            !.faults = {}, !.events = <<>>, !.cycles = cycle.cycles + 1]
  /\ UNCHANGED <<storeVars, today, pipeVars, parseVars, rotVars, readVars, clsVars, capVars, fetchVars, huntVars>>

\* line 381: resp = await client.get(url, timeout=20)
GetEndpoint(ans) ==
  /\ cycle.pc = "get"
  /\ LET c == [cycle EXCEPT !.requested = Append(cycle.requested, API_ENDPOINTS[cycle.k]),
                            !.answer = ans]
     IN cycle' = IF ans \in NetworkErrors
                 THEN [c EXCEPT !.pc = "except", !.faults = c.faults \cup {c.k}]
                 ELSE [c EXCEPT !.pc = "respond"]
  /\ UNCHANGED <<storeVars, today, pipeVars, parseVars, rotVars, readVars, clsVars, capVars, fetchVars, huntVars>>

\* lines 382-416: the api_response event and the block detection; a store
\* call that raises is caught by line 423
LogResponse(st) ==
  /\ cycle.pc = "respond"
  /\ cycle' = IF st = "raised" THEN [cycle EXCEPT !.pc = "except"]
              ELSE [Logged(cycle, "api_response") EXCEPT !.pc = "body"]
  /\ UNCHANGED <<storeVars, today, pipeVars, parseVars, rotVars, readVars, clsVars, capVars, fetchVars, huntVars>>

\* lines 417-422: resp.json(), insert_raw and process_payload of a body
\* declared JSON
ReadBody(st) ==
  /\ cycle.pc = "body"
  /\ cycle.answer = "json" \/ st = "ok"
  /\ cycle' = IF cycle.answer = "bad_json"
              THEN [cycle EXCEPT !.pc = "except", !.faults = cycle.faults \cup {cycle.k}]
              ELSE IF cycle.answer = "json" /\ st = "raised" THEN [cycle EXCEPT !.pc = "except"]
              ELSE NextEndpoint(cycle)
  /\ UNCHANGED <<storeVars, today, pipeVars, parseVars, rotVars, readVars, clsVars, capVars, fetchVars, huntVars>>

\* lines 423-453: the api_error event; when this insert raises, the
\* exception leaves poll_api_once
RecordError(st) ==
  /\ cycle.pc = "except"
  /\ cycle' = IF st = "raised" THEN [cycle EXCEPT !.pc = "escaped"]
              ELSE ContinueAfterError(Logged(cycle, "api_error"))
  /\ UNCHANGED <<storeVars, today, pipeVars, parseVars, rotVars, readVars, clsVars, capVars, fetchVars, huntVars>>

\* run_api_poller, lines 473-477: the count or the exception is logged and
\* the poller sleeps until the next cycle
SleepInterval ==
  /\ cycle.pc \in {"returned", "escaped"}
  /\ cycle' = [cycle EXCEPT !.pc = "loop"]
  /\ UNCHANGED <<storeVars, today, pipeVars, parseVars, rotVars, readVars, clsVars, capVars, fetchVars, huntVars>>

\* the task is cancelled at an await: CancelledError is no Exception, it
\* leaves the `async with` and the client is closed
CancelPoller ==
  /\ cycle.pc \notin {"off", "cancelled"}
  /\ cycle' = [cycle EXCEPT !.pc = "cancelled", !.client = "closed"]
  /\ UNCHANGED <<storeVars, today, pipeVars, parseVars, rotVars, readVars, clsVars, capVars, fetchVars, huntVars>>

CycleNext ==
  \/ OpenClient
  \/ BeginCycle
  \/ \E ans \in EndpointAnswers : GetEndpoint(ans)
  \/ \E st \in StoreOutcomes : LogResponse(st)
  \/ \E st \in StoreOutcomes : ReadBody(st)
  \/ \E st \in StoreOutcomes : RecordError(st)
  \/ SleepInterval
  \/ CancelPoller

SpecCycle == StoreInit /\ [][CycleNext]_vars

\* the endpoints requested so far are the first of API_ENDPOINTS, in order
InListOrder == cycle.requested = SubSeq(API_ENDPOINTS, 1, Len(cycle.requested))
\* every network error of the cycle has its api_error event
FaultsRecorded ==
  \A k \in cycle.faults : \E i \in 1..Len(cycle.events) :
    cycle.events[i] = [phase |-> "api_error", k |-> k]

\* C27 as stated: a cycle that met a network error still requests every
\* endpoint once, in list order, records the error as api_error and keeps
\* the client open.
C27_ErrorNeverAbortsCycle ==
  (cycle.pc \in {"returned", "escaped"} /\ cycle.faults # {}) =>
    /\ cycle.requested = API_ENDPOINTS
    /\ FaultsRecorded
    /\ cycle.client = "open"

\* C27, amended: the error is recorded and the loop goes on whenever the
\* api_error event is stored, so a cycle poll_api_once returns from has
\* requested every endpoint once, in list order; when storing the event
\* raises, the exception leaves poll_api_once after a prefix of the list;
\* the client is open either way.
C27_ErrorRecordedLoopGoesOn ==
  /\ cycle.pc \in {"get", "respond", "body", "except", "returned", "escaped", "loop"} =>
       cycle.client = "open" /\ InListOrder
  /\ cycle.pc = "returned" => cycle.requested = API_ENDPOINTS /\ FaultsRecorded
  /\ cycle.pc = "escaped" =>
       \A k \in cycle.faults : k < Len(cycle.requested) =>
         [phase |-> "api_error", k |-> k] \in {cycle.events[i] : i \in 1..Len(cycle.events)}

\* a cycle that returned after a network error on the first endpoint and a
\* body that is no JSON on the second
C27_Witness ==
  /\ cycle.pc = "returned"
  /\ cycle.faults = {1, 2}
  /\ cycle.requested = API_ENDPOINTS
  /\ cycle.client = "open"

\* the cycle that ends early: the api_error insert raised on the first endpoint
C27_CycleCutShort ==
  /\ cycle.pc = "escaped"
  /\ cycle.faults = {1}
  /\ Len(cycle.requested) = 1


\* the sessions a source holds open: the one of its running cycle and the
\* ones abandoned generators still hold
OpenSessions(s) == (IF cap[s].session = "open" THEN 1 ELSE 0) + cap[s].orphans

\* C31: within one source at most one session is open at any time, and a
\* session is opened only when every session opened before it is closed,
\* also after the supervisor has restarted the source.
C31_OneSessionAtATime ==
  /\ [](\A s \in Sources : OpenSessions(s) <= 1)
  /\ [][\A s \in Sources :
          (cap[s].session # "open" /\ cap'[s].session = "open") => cap[s].orphans = 0]_vars

\* the web source, restarted by its supervisor, has a session open
C31_Witness ==
  /\ cap["web"].sup = "running" /\ cap["web"].tries = 2
  /\ cap["web"].session = "open" /\ cap["web"].pc = "observe"

\* the restarted web source has launched a browser while the browser of the
\* failed attempt is still open
C31_TwoBrowsers ==
  /\ cap["web"].sup = "running" /\ cap["web"].session = "open"
  /\ cap["web"].orphans = 1

\* a cycle whose body ends normally closes its browser before the sleep,
\* and the poller holds one client from its construction on, through the
\* sleeps between its cycles
C31_CycleWithoutFailure ==
  /\ cap["web"].pc = "sleep" => cap["web"].session = "closed"
  /\ cap["api"].pc = "sleep" => cap["api"].session = "open"


(***************************************************************************)
(* The poller's block detection over responses that were reached through   *)
(* chains of redirects.                                                    *)
(***************************************************************************)
\* the redirects followed before a response
MaxHops == 2

\* the Location header of one redirect
Hops == {JNone, JStr(sLocHome), JStr(sLocBlock)}
Histories == UNION {[1..n -> Hops] : n \in 0..MaxHops}

\* the response client.get returns after the redirects of history
Followed(history, ctype, payload) ==
  [status |-> 200, location |-> JNone, ctype |-> ctype, payload |-> payload,
   history |-> history]
FollowedResponses ==
  {Followed(h, sTextPlain, JNone) : h \in Histories}
    \cup {Followed(h, sAppJson, PayloadOne) : h \in Histories}
    \cup {Followed(<<JStr(sLocHome), JStr(sLocBlock)>>, sHtmlUtf8, JNone)}

RedirectNext ==
  \/ \E c \in Tasks \ {Poller} : HandleResponse(c, JsonResponse(PayloadOne))
  \/ \E resp \in FollowedResponses : PollApiOnce(Poller, resp)
  \/ \E c \in Tasks : AfterNetworkEvent(c)
  \/ \E c \in Tasks : AfterBlockEvent(c)
  \/ \E c \in Tasks : AfterRawAll(c)
  \/ \E c \in Tasks : AfterUpsert(c)
  \/ \E c \in Tasks : AfterRaw(c)
  \/ \E c \in Tasks : AfterApiError(c)
  \/ \E c \in Tasks : StoreExecute(c)
  \/ \E c \in Tasks : StoreCommit(c)
  \/ \E c \in Tasks : StoreAbort(c)
  \/ Tick

SpecRedirects == PipeInit /\ [][RedirectNext]_vars

\* some redirect of the chain points at the block page
MarkerInChain(c) ==
  /\ pp[c].path = "api"
  /\ \E i \in 1..Len(pp[c].history) :
       IsStr(pp[c].history[i]) /\ Contains(pp[c].history[i].s, sMarker)
\* the first redirect that has a Location points at the block page
MarkerFirst(c) ==
  /\ pp[c].path = "api"
  /\ Truthy(FirstLocation(pp[c].history))
  /\ Contains(FirstLocation(pp[c].history).s, sMarker)
GeoRows == {r \in BlockRows : r.block_type = "geo_ip_block" /\ r.source = "api"}

\* C32: a response the poller reached through a chain of redirects one of
\* which points at the block marker has its geo_ip_block event once the
\* poller is done with it, whichever place that redirect has in the chain.
C32_MarkerAnywhereInChain ==
  (OnlyPayload(Poller) /\ MarkerInChain(Poller) /\ pp[Poller].pc = "done") => GeoRows # {}

\* the poller is done with a response whose second redirect pointed at the
\* block page
C32_Witness ==
  /\ OnlyPayload(Poller) /\ pp[Poller].pc = "done"
  /\ pp[Poller].history = <<JStr(sLocHome), JStr(sLocBlock)>>

\* what the code does: the event is recorded when the first redirect with a
\* Location points at the block page, and for no other chain
C32_FirstLocationDecides ==
  (OnlyPayload(Poller) /\ pp[Poller].path = "api" /\ pp[Poller].pc = "done") =>
    (GeoRows # {} <=> MarkerFirst(Poller))

\* a chain home -> block page that ended in an HTML page: recorded as html_block
C32_RecordedAsHtmlBlock ==
  /\ OnlyPayload(Poller) /\ pp[Poller].pc = "done" /\ MarkerInChain(Poller)
  /\ \E r \in BlockRows : r.block_type = "html_block"


\* the committed upsert_match calls for match_id, as places of `committed`
CallsFor(match_id) == {k \in 1..Len(committed) : committed[k].match_id = match_id}
FirstCallFor(match_id) ==
  CHOOSE k \in CallsFor(match_id) : \A j \in CallsFor(match_id) : k <= j
LastCallFor(match_id) ==
  CHOOSE k \in CallsFor(match_id) : \A j \in CallsFor(match_id) : k >= j

\* created_at is the time of the first committed call and stays, updated_at
\* of the match row is the time of the last committed call
StampsOfCalls ==
  \A r \in db.matches :
    /\ CallsFor(r.match_id) # {}
    /\ r.created_at = committed[FirstCallFor(r.match_id)].now
    /\ r.updated_at = committed[LastCallFor(r.match_id)].now

\* no committed step takes updated_at of a match row or of an odds row back
UpdatedForward ==
  /\ \A r \in db.matches : \A q \in db'.matches :
       q.match_id = r.match_id => q.updated_at >= r.updated_at
  /\ \A r \in db.odds : \A q \in db'.odds :
       SameOddsKey(r, q) => q.updated_at >= r.updated_at

CreatedKept ==
  \A r \in db.matches : \E q \in db'.matches :
    q.match_id = r.match_id /\ q.created_at = r.created_at

\* C34: created_at of a match row is set by the first upsert_match for its
\* match_id and no later call changes it; updated_at of the match row and of
\* the odds rows of a call is that call's time and, the clock being
\* monotonic, never moves backwards.
C34_CreatedOnceUpdatedForward ==
  /\ []StampsOfCalls
  /\ [][CreatedKept /\ UpdatedForward]_vars

\* two calls for one match_id, made at different times, are committed
C34_Witness ==
  /\ Len(committed) = 2
  /\ committed[1].match_id = committed[2].match_id
  /\ committed[1].now # committed[2].now

\* what the code does: created_at is kept, and the stamps are those of the
\* first and of the last call in commit order
C34_StampsInCommitOrder ==
  /\ []StampsOfCalls
  /\ [][CreatedKept]_vars

\* the call that read the clock first was committed last: updated_at of the
\* row is earlier than the time of a call committed before
C34_StampTakenBack ==
  /\ Len(committed) = 2
  /\ committed[1].match_id = committed[2].match_id
  /\ committed[2].now < committed[1].now
  /\ \E r \in db.matches : r.match_id = committed[1].match_id
                           /\ r.updated_at < committed[1].now


(***************************************************************************)
(* tools/find_hu_proxy: main fills a queue with the candidates, creates    *)
(* the workers and waits for queue.join() or for its timeout; the workers  *)
(* take candidates until the result future is done.                        *)
(***************************************************************************)
\* the candidates of the sample (800 in main)
MaxSample == 2

\* what a candidate gives: get_country_via_proxy and test_tippmix_via_proxy
HuntKinds ==
  {[cc |-> "HU", tippmix |-> TRUE], [cc |-> "HU", tippmix |-> FALSE],
   [cc |-> "DE", tippmix |-> TRUE]}
Samples == UNION {[1..n -> HuntKinds] : n \in 0..MaxSample}

\* a variant: the future is set whenever the test passed
SetResultAlways(h, ok, proxy) ==
  IF ok THEN [h EXCEPT !.result = proxy, !.sets = h.sets + 1] ELSE h

\* lines 61-62: if ok and not result.done(): result.set_result(proxy)
SetResult(h, ok, proxy) ==
  IF ok /\ h.result = 0 THEN [h EXCEPT !.result = proxy, !.sets = h.sets + 1] ELSE h

\* queue.task_done()
TaskDone(h) == [h EXCEPT !.unfinished = h.unfinished - 1]

\* lines 67-73: fetch_proxy_list raises, or the sample is queued, the future
\* and the workers are created and main awaits queue.join()
FetchProxyList(ok) ==
  /\ hunt.main = "fetch"
  /\ hunt' = IF ok
             THEN [hunt EXCEPT !.main = "join",
                               !.queue = [i \in 1..Len(hunt.sample) |-> i],
                               !.unfinished = Len(hunt.sample),
                               !.w = [i \in HuntWorkers |-> [pc |-> "loop", proxy |-> 0]]]
             ELSE [hunt EXCEPT !.main = "raised"]
  /\ UNCHANGED <<storeVars, today, pipeVars, parseVars, rotVars, readVars, clsVars, capVars, fetchVars, cycleVars>>

\* line 53: while not result.done()
CheckDone(i) ==
  /\ hunt.w[i].pc = "loop"
  /\ hunt' = [hunt EXCEPT !.w[i].pc = IF hunt.result # 0 THEN "returned" ELSE "get"]
  /\ UNCHANGED <<storeVars, today, pipeVars, parseVars, rotVars, readVars, clsVars, capVars, fetchVars, cycleVars>>

\* line 55: queue.get() gives the next candidate
TakeCandidate(i) ==
  /\ hunt.w[i].pc = "get"
  /\ hunt.queue # <<>>
  /\ hunt' = [hunt EXCEPT !.queue = Tail(hunt.queue),
                          !.w[i] = [pc |-> "country", proxy |-> Head(hunt.queue)]]
  /\ UNCHANGED <<storeVars, today, pipeVars, parseVars, rotVars, readVars, clsVars, capVars, fetchVars, cycleVars>>

\* lines 56-57: the queue stayed empty for a second, the worker returns
GetTimeout(i) ==
  /\ hunt.w[i].pc = "get"
  /\ hunt.queue = <<>>
  /\ hunt' = [hunt EXCEPT !.w[i].pc = "returned"]
  /\ UNCHANGED <<storeVars, today, pipeVars, parseVars, rotVars, readVars, clsVars, capVars, fetchVars, cycleVars>>

\* lines 58-59 (and 63 for another country): get_country_via_proxy has answered
CountryAnswered(i) ==
  /\ hunt.w[i].pc = "country"
  /\ hunt' = IF hunt.sample[hunt.w[i].proxy].cc = "HU"
             THEN [hunt EXCEPT !.w[i].pc = "test"]
             ELSE [TaskDone(hunt) EXCEPT !.w[i].pc = "loop"]
  /\ UNCHANGED <<storeVars, today, pipeVars, parseVars, rotVars, readVars, clsVars, capVars, fetchVars, cycleVars>>

\* lines 60-63: test_tippmix_via_proxy has answered
TestAnswered(i) ==
  /\ hunt.w[i].pc = "test"
  /\ hunt' = [TaskDone(SetResult(hunt, hunt.sample[hunt.w[i].proxy].tippmix, hunt.w[i].proxy))
                EXCEPT !.w[i].pc = "loop"]
  /\ UNCHANGED <<storeVars, today, pipeVars, parseVars, rotVars, readVars, clsVars, capVars, fetchVars, cycleVars>>

\* lines 78-84: the workers are cancelled, the result is printed and returned
Finish(h) ==
  [h EXCEPT !.main = "returned",
            !.w = [i \in HuntWorkers |->
                     IF h.w[i].pc = "returned" THEN h.w[i]
                     ELSE [h.w[i] EXCEPT !.pc = "cancelled"]],
            !.code = IF h.result = 0 THEN 2 ELSE 0,
            !.printed = h.result]

\* line 75: queue.join() returns: every queued candidate had its task_done
JoinReturns ==
  /\ hunt.main = "join"
  /\ hunt.unfinished = 0
  /\ hunt' = Finish(hunt)
  /\ UNCHANGED <<storeVars, today, pipeVars, parseVars, rotVars, readVars, clsVars, capVars, fetchVars, cycleVars>>

\* lines 76-77: the 300 seconds of wait_for are over
JoinTimeout ==
  /\ hunt.main = "join"
  /\ hunt.unfinished > 0
  /\ hunt' = Finish(hunt)
  /\ UNCHANGED <<storeVars, today, pipeVars, parseVars, rotVars, readVars, clsVars, capVars, fetchVars, cycleVars>>

HuntInit ==
  /\ StoreIdle /\ today = BaseDay /\ PipeIdle /\ ParseIdle /\ RotIdle /\ ReadIdle /\ ClsIdle
  /\ CapIdle /\ FetchIdle /\ CycleIdle
  /\ \E s \in Samples : hunt = [IdleHunt EXCEPT !.main = "fetch", !.sample = s]

HuntNext ==
  \/ \E ok \in BOOLEAN : FetchProxyList(ok)
  \/ \E i \in HuntWorkers : CheckDone(i)
  \/ \E i \in HuntWorkers : TakeCandidate(i)
  \/ \E i \in HuntWorkers : GetTimeout(i)
  \/ \E i \in HuntWorkers : CountryAnswered(i)
  \/ \E i \in HuntWorkers : TestAnswered(i)
  \/ JoinReturns
  \/ JoinTimeout

\* main and the timer of its wait_for are run by the event loop; nothing is
\* asked of the workers or of the proxies they talk through
HuntFair ==
  /\ WF_vars(\E ok \in BOOLEAN : FetchProxyList(ok))
  /\ WF_vars(JoinReturns)
  /\ WF_vars(JoinTimeout)

SpecHunt == HuntInit /\ [][HuntNext]_vars /\ HuntFair

\* C35: once main has created the workers, under every interleaving of
\* theirs the future is set at most once and only to a candidate that
\* reported HU and passed the Tippmix test; main ends, returning 0 with that
\* candidate printed if the future was set and 2 otherwise; and once the
\* future is set main ends whether or not the candidates still queued are
\* ever processed.
C35_OneResultMainEnds ==
  /\ [](hunt.sets <= 1)
  /\ [][hunt.result # 0 => hunt'.result = hunt.result]_vars
  /\ [](hunt.result # 0 =>
          /\ hunt.sample[hunt.result].cc = "HU"
          /\ hunt.sample[hunt.result].tippmix)
  /\ [](hunt.main = "returned" =>
          \/ hunt.result # 0 /\ hunt.code = 0 /\ hunt.printed = hunt.result
          \/ hunt.result = 0 /\ hunt.code = 2)
  /\ (hunt.main = "join") ~> (hunt.main = "returned")
  /\ (hunt.result # 0) ~> (hunt.main = "returned")

\* main has returned 0 with the proxy one worker found while the other
\* worker was still testing a second candidate that passes
C35_Witness ==
  /\ hunt.main = "returned" /\ hunt.code = 0 /\ hunt.result # 0
  /\ hunt.unfinished > 0
  /\ \E i \in HuntWorkers :
       /\ hunt.w[i].pc = "cancelled" /\ hunt.w[i].proxy \notin {0, hunt.result}
       /\ hunt.sample[hunt.w[i].proxy].tippmix

\* main has returned 0 after its timeout: a candidate was left in the queue
\* when the workers stopped
C35_LeftInQueue ==
  /\ hunt.main = "returned" /\ hunt.code = 0
  /\ hunt.queue # <<>>

\* the rotation has returned a proxy: the Active Proxy State is committed
Committed == rot.pc = "returned" /\ rot.ret # RetNone
\* the source runs neither a cycle nor a wait for one
Ended(s) == cap[s].sup \in {"off", "raised", "cancelled"}

\* C33: after rotate_proxy has committed a new Active Proxy, with no
\* override set, the capture cycles run through it: the browser is launched
\* with the state as it is at the launch, and the poller's cycles come to use
\* the committed proxy while the poller runs.
C33_CyclesUseCommittedProxy ==
  /\ [][(cap["web"].session # "open" /\ cap'["web"].session = "open") =>
          cap'["web"].proxy = ProxyNow]_vars
  /\ Committed ~> (Ended("api") \/ cap["api"].proxy = ProxyNow)

\* the browser of a cycle that began after the rotation runs through the
\* proxy the rotation committed
C33_Witness ==
  /\ Committed
  /\ cap["web"].session = "open" /\ cap["web"].pc = "observe"
  /\ cap["web"].proxy = rot.ret /\ rot.ret # rot.before

\* what the code does: browser and client read the state when they are
\* built, the browser in every cycle, the client once for all the cycles of
\* one call of run_api_poller
C33_ReadWhenBuilt ==
  [][/\ \A s \in Sources :
          (cap[s].session # "open" /\ cap'[s].session = "open") =>
            cap'[s].proxy = ProxyNow
     /\ (cap["api"].session = "open" /\ cap'["api"].session = "open") =>
          cap'["api"].proxy = cap["api"].proxy]_vars

\* the poller begins a cycle after the rotation with the client it had
C33_PollerOnOldProxy ==
  /\ Committed /\ rot.ret # rot.before
  /\ cap["api"].sup = "running" /\ cap["api"].pc = "sleep"
  /\ cap["api"].proxy = rot.before

=============================================================================
